---- MODULE Spec2Model ----
(***************************************************************************)
(* Model of the infinite-recursion diagnostic pass                         *)
(* (lib/SILOptimizer/Mandatory/DiagnoseInfiniteRecursion.cpp).             *)
(*                                                                         *)
(* A function is a record                                                  *)
(*   [nargs, deserialized, vals, blocks]                                   *)
(* vals   : the value graph, a sequence of nodes                           *)
(*          [kind, idx, reads, marker, ops]; value i+1 is the function's   *)
(*          own i-th argument (kind "arg", idx i).                         *)
(* blocks : a sequence of basic blocks [insts, term, cond, succs]; block 1 *)
(*          is the entry block, succs lists one entry per successor edge   *)
(*          (duplicates kept), cond is the value the terminator branches   *)
(*          on (0 when it has none).                                       *)
(* An instruction of a block is [kind, callee, writes, args, method,       *)
(* terminationPoint]; terminationPoint tells that the callee of an apply   *)
(* is a known program termination point, whichever function it is;         *)
(* callee is the function a function_ref names ("self", "other"),          *)
(* or the instruction that computes the callee ("class_method",            *)
(* "witness_method", "super_method", "objc_super_method", "objc_method",   *)
(* "closure"); method is what the module answers about a dispatched        *)
(* callee.                                                                 *)
(***************************************************************************)
EXTENDS Integers, Sequences, FiniteSets, TLC

\* ------------------------------------------------------------------------
\* Bounds of the model
\* ------------------------------------------------------------------------

\* Number of basic blocks of the generated functions.
MaxBlocks == 3

\* Number of times the pass is run on the same, unmodified function.
MaxRuns == 2

\* The history of worklist pushes counts up to this number per block.
MaxPushCount == 2

\* Number of instruction nodes of the generated value graphs.
MaxNodes == 3

\* ------------------------------------------------------------------------
\* class Invariants
\* ------------------------------------------------------------------------

invariantMemoryBit == 0

firstArgBit == 1

\* Variant of maxArgIndex that tracks one more argument position.
maxArgIndex_wide == 16 + 1

maxArgIndex == 16

\* SmallSetVector<Invariants, 4> and the size() >= 4 cut-off.
MaxInvariantsToTry == 4

isBitSet(bitMask, bitNr) == (bitMask \div (2 ^ bitNr)) % 2 = 1

\* bitMask | (1 << bitNr)
orBit(bitMask, bitNr) ==
  IF isBitSet(bitMask, bitNr) THEN bitMask ELSE bitMask + 2 ^ bitNr

noInvariants == 0

\* Variant of withInvariantMemory that loses the memory bit.
withInvariantMemory_lost(bitMask) == bitMask

withInvariantMemory(bitMask) == orBit(bitMask, invariantMemoryBit)

isMemoryInvariant(bitMask) == isBitSet(bitMask, invariantMemoryBit)

\* Variant of isArgumentInvariant that forgets firstArgBit.
isArgumentInvariant_noShift(bitMask, argIdx) ==
  argIdx <= maxArgIndex /\ isBitSet(bitMask, argIdx)

isArgumentInvariant(bitMask, argIdx) ==
  argIdx <= maxArgIndex /\ isBitSet(bitMask, argIdx + firstArgBit)

\* The function's own argIdx-th argument (0-based) as a value of the graph.
incomingArg(f, argIdx) == argIdx + 1

\* stripAccessMarkers: look through begin_access-like wrappers.
RECURSIVE stripAccessMarkers(_, _)
stripAccessMarkers(f, v) ==
  IF f.vals[v].kind = "inst" /\ f.vals[v].marker
  THEN stripAccessMarkers(f, f.vals[v].ops[1])
  ELSE v

\* Use-def walk. The visited set is passed by reference in the code, so the
\* result carries it: [res, visited].
RECURSIVE isInvariantValue(_, _, _, _)
RECURSIVE allOperandsInvariant(_, _, _, _, _)
isInvariantValue(f, bitMask, value, visited) ==
  IF value \in visited
  THEN [res |-> TRUE, visited |-> visited]
  ELSE LET vis  == visited \cup {value}
           node == f.vals[value]
       IN IF node.kind = "inst"
          THEN IF ~isMemoryInvariant(bitMask) /\ node.reads
               THEN [res |-> FALSE, visited |-> vis]
               ELSE allOperandsInvariant(f, bitMask, node.ops, 1, vis)
          ELSE IF node.kind = "arg"
          THEN [res |-> isArgumentInvariant(bitMask, node.idx), visited |-> vis]
          ELSE [res |-> FALSE, visited |-> vis]

\* for (Operand &op : inst->getAllOperands()) with the early return.
allOperandsInvariant(f, bitMask, ops, i, visited) ==
  IF i > Len(ops)
  THEN [res |-> TRUE, visited |-> visited]
  ELSE LET r == isInvariantValue(f, bitMask, ops[i], visited)
       IN IF ~r.res
          THEN [res |-> FALSE, visited |-> r.visited]
          ELSE allOperandsInvariant(f, bitMask, ops, i + 1, r.visited)

\* fromForwardingArguments: the loop over the call's arguments, argIdx 0-based.
RECURSIVE forwardingBits(_, _, _, _)
forwardingBits(f, args, argIdx, bitMask) ==
  IF argIdx >= Len(args)
  THEN bitMask
  ELSE forwardingBits(f, args, argIdx + 1,
         IF argIdx <= maxArgIndex
            /\ stripAccessMarkers(f, args[argIdx + 1]) = incomingArg(f, argIdx)
         THEN orBit(bitMask, argIdx + firstArgBit)
         ELSE bitMask)

fromForwardingArguments(f, recursiveApply) ==
  forwardingBits(f, recursiveApply.args, 0, 0)

\* Terminator kinds whose branching decision is data-dependent.
AddrCondTerms == {"switch_enum_addr", "checked_cast_addr_br"}

ValueCondTerms == {"cond_br", "switch_value", "switch_enum", "checked_cast_br",
                   "checked_cast_value_br"}

isInvariant(f, bitMask, block) ==
  IF block.term \in AddrCondTerms /\ ~isMemoryInvariant(bitMask)
  THEN FALSE
  ELSE IF block.term \in AddrCondTerms \cup ValueCondTerms
  THEN isInvariantValue(f, bitMask, block.cond, {}).res
  ELSE FALSE

\* Variant of hasInvariantArguments that accepts every call.
hasInvariantArguments_always(f, bitMask, recursiveApply) == TRUE

hasInvariantArguments(f, bitMask, recursiveApply) ==
  \A argIdx \in 0..(Len(recursiveApply.args) - 1) :
     ~(isArgumentInvariant(bitMask, argIdx)
       /\ stripAccessMarkers(f, recursiveApply.args[argIdx + 1])
            # incomingArg(f, argIdx))

\* ------------------------------------------------------------------------
\* Instruction classification
\* ------------------------------------------------------------------------

isFullApplySite(inst) == inst.kind = "apply"

isCalleeKnownProgramTerminationPoint(inst) == inst.terminationPoint

\* Variant of isRecursiveCall that takes every full apply for a self-call.
isRecursiveCall_anyCall(inst) == inst.kind = "apply"

\* applySite.getReferencedFunctionOrNull(): the function a function_ref
\* names, "null" for a callee that is computed.
getReferencedFunctionOrNull(inst) ==
  IF inst.callee \in {"self", "other"} THEN inst.callee ELSE "null"

\* The call is a full-apply site which calls the containing function: by a
\* function_ref, by a class method of this module whose callees are
\* statically knowable and which is not overridden, or by a witness method
\* whose witness-table entry is the function.
isRecursiveCall(inst) ==
  IF getReferencedFunctionOrNull(inst) # "null"
  THEN getReferencedFunctionOrNull(inst) = "self"
  ELSE IF inst.callee \in {"super_method", "objc_super_method", "objc_method"}
  THEN FALSE
  ELSE IF inst.callee = "class_method"
  THEN IF inst.method.classInOtherModule
       THEN FALSE
       ELSE IF ~inst.method.calleesAreStaticallyKnowable
       THEN FALSE
       ELSE IF inst.method.isOverridden
       THEN FALSE
       ELSE inst.method.target = "self"
  ELSE IF inst.callee = "witness_method"
  THEN inst.method.target = "self"
  ELSE FALSE

mayWriteToMemory(inst) ==
  IF inst.kind \in {"load", "begin_access", "end_access"}
  THEN FALSE
  ELSE inst.writes

isFunctionExiting(term) == term \in {"return", "throw", "unwind"}

isProgramTerminating(term) == term = "unreachable"

\* ------------------------------------------------------------------------
\* struct BlockInfo
\* ------------------------------------------------------------------------

\* Variant of scanInsts that looks for a memory write before it looks at
\* the call.
RECURSIVE scanInsts_writeFirst(_, _, _, _)
scanInsts_writeFirst(f, bitMask, insts, i) ==
  IF i > Len(insts)
  THEN [stop |-> FALSE, recursiveCall |-> 0, reachesReturn |-> FALSE]
  ELSE LET inst == insts[i]
       IN IF isMemoryInvariant(bitMask) /\ mayWriteToMemory(inst)
          THEN [stop |-> TRUE, recursiveCall |-> 0, reachesReturn |-> TRUE]
          ELSE IF isFullApplySite(inst)
                  /\ isCalleeKnownProgramTerminationPoint(inst)
          THEN [stop |-> TRUE, recursiveCall |-> 0, reachesReturn |-> FALSE]
          ELSE IF isFullApplySite(inst) /\ isRecursiveCall(inst)
                  /\ hasInvariantArguments(f, bitMask, inst)
          THEN [stop |-> TRUE, recursiveCall |-> i, reachesReturn |-> FALSE]
          ELSE scanInsts_writeFirst(f, bitMask, insts, i + 1)

\* Variant of scanInsts that takes a memory write for a return whatever the
\* assumption.
RECURSIVE scanInsts_writesAlways(_, _, _, _)
scanInsts_writesAlways(f, bitMask, insts, i) ==
  IF i > Len(insts)
  THEN [stop |-> FALSE, recursiveCall |-> 0, reachesReturn |-> FALSE]
  ELSE LET inst == insts[i]
       IN IF isFullApplySite(inst) /\ isCalleeKnownProgramTerminationPoint(inst)
          THEN [stop |-> TRUE, recursiveCall |-> 0, reachesReturn |-> FALSE]
          ELSE IF isFullApplySite(inst) /\ isRecursiveCall(inst)
                  /\ hasInvariantArguments(f, bitMask, inst)
          THEN [stop |-> TRUE, recursiveCall |-> i, reachesReturn |-> FALSE]
          ELSE IF mayWriteToMemory(inst)
          THEN [stop |-> TRUE, recursiveCall |-> 0, reachesReturn |-> TRUE]
          ELSE scanInsts_writesAlways(f, bitMask, insts, i + 1)

\* The instruction loop of the constructor. recursiveCall is the index of
\* the call in the block, 0 for nullptr; stop tells that the constructor
\* returned from inside the loop.
RECURSIVE scanInsts(_, _, _, _)
scanInsts(f, bitMask, insts, i) ==
  IF i > Len(insts)
  THEN [stop |-> FALSE, recursiveCall |-> 0, reachesReturn |-> FALSE]
  ELSE LET inst == insts[i]
       IN IF isFullApplySite(inst) /\ isCalleeKnownProgramTerminationPoint(inst)
          THEN [stop |-> TRUE, recursiveCall |-> 0, reachesReturn |-> FALSE]
          ELSE IF isFullApplySite(inst) /\ isRecursiveCall(inst)
                  /\ hasInvariantArguments(f, bitMask, inst)
          THEN [stop |-> TRUE, recursiveCall |-> i, reachesReturn |-> FALSE]
          ELSE IF isMemoryInvariant(bitMask) /\ mayWriteToMemory(inst)
          THEN [stop |-> TRUE, recursiveCall |-> 0, reachesReturn |-> TRUE]
          ELSE scanInsts(f, bitMask, insts, i + 1)

\* Variant of the constructor that inspects the terminator even after the
\* instruction loop has found a recursive call.
BlockInfo_terminatorAlways(f, b, bitMask) ==
  LET block == f.blocks[b]
      scan  == scanInsts(f, bitMask, block.insts, 1)
  IN [recursiveCall             |-> scan.recursiveCall,
      numSuccsNotReachingReturn |-> Len(block.succs),
      hasInvariantCondition     |-> isInvariant(f, bitMask, block),
      reachesReturn             |->
         scan.reachesReturn
         \/ isFunctionExiting(block.term) \/ isProgramTerminating(block.term),
      reachableFromEntry        |-> FALSE]

BlockInfo(f, b, bitMask) ==
  LET block == f.blocks[b]
      scan  == scanInsts(f, bitMask, block.insts, 1)
  IN [recursiveCall             |-> scan.recursiveCall,
      numSuccsNotReachingReturn |-> Len(block.succs),
      hasInvariantCondition     |-> isInvariant(f, bitMask, block),
      reachesReturn             |->
         IF scan.stop
         THEN scan.reachesReturn
         ELSE isFunctionExiting(block.term) \/ isProgramTerminating(block.term),
      reachableFromEntry        |-> FALSE]

\* ------------------------------------------------------------------------
\* CFG accessors
\* ------------------------------------------------------------------------

NumBlocks(f) == Len(f.blocks)

Blocks(f) == 1..NumBlocks(f)

EntryBlock == 1

getSuccessorBlocks(f, b) == f.blocks[b].succs

\* All successor edges <<from, to>>, block by block.
RECURSIVE edgesFrom(_, _)
edgesFrom(f, p) ==
  IF p > NumBlocks(f)
  THEN << >>
  ELSE [k \in 1..Len(f.blocks[p].succs) |-> <<p, f.blocks[p].succs[k]>>]
       \o edgesFrom(f, p + 1)

\* Variant of getPredecessorBlocks that lists every predecessor once.
getPredecessorBlocks_distinct(f, b) ==
  SelectSeq([p \in 1..NumBlocks(f) |-> p],
            LAMBDA p : \E k \in DOMAIN f.blocks[p].succs :
                          f.blocks[p].succs[k] = b)

\* One entry per incoming edge, so a block that reaches b over two edges is
\* listed twice.
getPredecessorBlocks(f, b) ==
  LET es == SelectSeq(edgesFrom(f, 1), LAMBDA e : e[2] = b)
  IN [k \in 1..Len(es) |-> es[k][1]]

\* ------------------------------------------------------------------------
\* class InfiniteRecursionAnalysis
\* ------------------------------------------------------------------------

\* Variant of newBlockInfos that keeps the map of the earlier analysis.
newBlockInfos_reused(previous) == previous

\* The block-info map of a newly constructed analysis object: empty, whatever
\* map an earlier analysis object held.
newBlockInfos(previous) == << >>

\* DenseMap::insert: an existing entry is kept.
mapInsert(map, b, blockInfo) ==
  IF b \in DOMAIN map
  THEN map
  ELSE [x \in (DOMAIN map) \cup {b} |-> IF x = b THEN blockInfo ELSE map[x]]

\* First loop of isEntryReachableFromReturn: build the block infos and seed
\* the worklist with the blocks whose freshly built info has reachesReturn.
RECURSIVE initBlockInfos(_, _, _, _, _)
initBlockInfos(f, bitMask, b, infos, workList) ==
  IF b > NumBlocks(f)
  THEN [infos |-> infos, workList |-> workList]
  ELSE LET blockInfo == BlockInfo(f, b, bitMask)
       IN initBlockInfos(f, bitMask, b + 1, mapInsert(infos, b, blockInfo),
                         IF blockInfo.reachesReturn
                         THEN Append(workList, b)
                         ELSE workList)

\* Variant of skipsPredecessor that visits predecessors which already have
\* reaches-return.
skipsPredecessor_onlyCalls(predInfo) == predInfo.recursiveCall # 0

\* Variant of skipsPredecessor in which recursive calls do not block the
\* propagation.
skipsPredecessor_ignoresCall(predInfo) == predInfo.reachesReturn

\* Predecessors that the backward pass leaves alone.
skipsPredecessor(predInfo) ==
  predInfo.reachesReturn \/ predInfo.recursiveCall # 0

\* Variant of waitsForOtherSuccessors that waits at every block.
waitsForOtherSuccessors_anyBlock(predInfo) ==
  predInfo.numSuccsNotReachingReturn > 0

\* After the decrement: wait for the other successors of an invariant
\* condition.
waitsForOtherSuccessors(predInfo) ==
  predInfo.hasInvariantCondition /\ predInfo.numSuccsNotReachingReturn > 0

\* Variant of visitPredecessors that leaves the loop after the first
\* predecessor it has put on the worklist.
RECURSIVE visitPredecessors_firstOnly(_, _, _, _)
visitPredecessors_firstOnly(preds, i, infos, workList) ==
  IF i > Len(preds)
  THEN [infos |-> infos, workList |-> workList]
  ELSE LET pred     == preds[i]
           predInfo == infos[pred]
       IN IF skipsPredecessor(predInfo)
          THEN visitPredecessors_firstOnly(preds, i + 1, infos, workList)
          ELSE LET dec == [predInfo EXCEPT !.numSuccsNotReachingReturn = @ - 1]
               IN IF waitsForOtherSuccessors(dec)
                  THEN visitPredecessors_firstOnly(preds, i + 1,
                         [infos EXCEPT ![pred] = dec], workList)
                  ELSE [infos |-> [infos EXCEPT ![pred] =
                                     [dec EXCEPT !.reachesReturn = TRUE]],
                        workList |-> Append(workList, pred)]

\* for (auto *pred : block->getPredecessorBlocks()) of the backward pass.
\* The counter is an integer here: a decrement that
\* assert(predInfo.numSuccsNotReachingReturn > 0) would stop leaves it at -1.
RECURSIVE visitPredecessors(_, _, _, _)
visitPredecessors(preds, i, infos, workList) ==
  IF i > Len(preds)
  THEN [infos |-> infos, workList |-> workList]
  ELSE LET pred     == preds[i]
           predInfo == infos[pred]
       IN IF skipsPredecessor(predInfo)
          THEN visitPredecessors(preds, i + 1, infos, workList)
          ELSE LET dec == [predInfo EXCEPT !.numSuccsNotReachingReturn = @ - 1]
               IN IF waitsForOtherSuccessors(dec)
                  THEN visitPredecessors(preds, i + 1,
                         [infos EXCEPT ![pred] = dec], workList)
                  ELSE visitPredecessors(preds, i + 1,
                         [infos EXCEPT ![pred] =
                            [dec EXCEPT !.reachesReturn = TRUE]],
                         Append(workList, pred))

\* workList.pop_back_val()
popBack(workList) == SubSeq(workList, 1, Len(workList) - 1)

backVal(workList) == workList[Len(workList)]

\* Variant of entersSuccessor that does not look at reachesReturn.
entersSuccessor_ignoresReturn(succInfo) == ~succInfo.reachableFromEntry

\* Variant of entersSuccessor that does not look at reachableFromEntry.
entersSuccessor_revisits(succInfo) == ~succInfo.reachesReturn

\* Successors that the forward pass enqueues.
entersSuccessor(succInfo) ==
  ~succInfo.reachesReturn /\ ~succInfo.reachableFromEntry

\* for (auto *succ : block->getSuccessorBlocks()) of the forward pass.
RECURSIVE visitSuccessors(_, _, _, _)
visitSuccessors(succs, i, infos, workList) ==
  IF i > Len(succs)
  THEN [infos |-> infos, workList |-> workList]
  ELSE LET succ == succs[i]
       IN IF entersSuccessor(infos[succ])
          THEN visitSuccessors(succs, i + 1,
                 [infos EXCEPT ![succ].reachableFromEntry = TRUE],
                 Append(workList, succ))
          ELSE visitSuccessors(succs, i + 1, infos, workList)

\* analyzeAndDiagnose: the forward pass is run only when the backward pass
\* did not reach the entry block.
runsForwardPass(entryReachesReturn) == ~entryReachesReturn

\* The while loop of isEntryReachableFromReturn, run to its end.
RECURSIVE backwardLoop(_, _, _)
backwardLoop(f, infos, workList) ==
  IF workList = << >>
  THEN infos
  ELSE LET r == visitPredecessors(getPredecessorBlocks(f, backVal(workList)),
                                  1, infos, popBack(workList))
       IN backwardLoop(f, r.infos, r.workList)

\* isEntryReachableFromReturn: the block infos it leaves behind; its result
\* is their reachesReturn at the entry block.
isEntryReachableFromReturn(f, bitMask) ==
  LET r == initBlockInfos(f, bitMask, 1, << >>, << >>)
  IN backwardLoop(f, r.infos, r.workList)

\* The while loop of findRecursiveCallsAndDiagnose, run to its end: the
\* call sites it reports, in the order of the reports.
RECURSIVE forwardLoop(_, _, _, _)
forwardLoop(f, infos, workList, reported) ==
  IF workList = << >>
  THEN reported
  ELSE LET block == backVal(workList)
           rest  == popBack(workList)
           call  == infos[block].recursiveCall
       IN IF call # 0
          THEN forwardLoop(f, infos, rest, Append(reported, <<block, call>>))
          ELSE LET r == visitSuccessors(getSuccessorBlocks(f, block), 1,
                                        infos, rest)
               IN forwardLoop(f, r.infos, r.workList, reported)

\* findRecursiveCallsAndDiagnose on the block infos the backward pass left.
findRecursiveCallsAndDiagnose(f, infos) ==
  forwardLoop(f, [infos EXCEPT ![EntryBlock].reachableFromEntry = TRUE],
              <<EntryBlock>>, << >>)

\* A worklist without its k-th entry.
removeAt(workList, k) ==
  SubSeq(workList, 1, k - 1) \o SubSeq(workList, k + 1, Len(workList))

\* The sequences that list the entries of seq in another order.
orderings(seq) ==
  {[i \in DOMAIN seq |-> seq[p[i]]] : p \in Permutations(DOMAIN seq)}

\* ------------------------------------------------------------------------
\* collectInvariantsToTry and the driver
\* ------------------------------------------------------------------------

\* Variant of setVectorInsert that appends whatever the vector holds.
setVectorInsert_noDedup(vec, x) == Append(vec, x)

\* SmallSetVector::insert: insertion order, no duplicates.
setVectorInsert(vec, x) ==
  IF \E k \in 1..Len(vec) : vec[k] = x THEN vec ELSE Append(vec, x)

\* Variant of reachedLimit without a limit.
reachedLimit_never(invariantsToTry) == FALSE

\* Limit the size of the set.
reachedLimit(invariantsToTry) == Len(invariantsToTry) >= MaxInvariantsToTry

RECURSIVE collectFrom(_, _, _, _, _)
collectFrom(f, b, i, invariantsToTry, recursiveCallsFound) ==
  IF b > NumBlocks(f)
  THEN [found |-> recursiveCallsFound, invariantsToTry |-> invariantsToTry]
  ELSE IF i > Len(f.blocks[b].insts)
  THEN collectFrom(f, b + 1, 1, invariantsToTry, recursiveCallsFound)
  ELSE LET inst == f.blocks[b].insts[i]
       IN IF isFullApplySite(inst) /\ isRecursiveCall(inst)
          THEN LET s == setVectorInsert(invariantsToTry,
                                        fromForwardingArguments(f, inst))
               IN IF reachedLimit(s)
                  THEN [found |-> TRUE, invariantsToTry |-> s]
                  ELSE collectFrom(f, b, i + 1, s, TRUE)
          ELSE collectFrom(f, b, i + 1, invariantsToTry, recursiveCallsFound)

collectInvariantsToTry(f) == collectFrom(f, 1, 1, <<noInvariants>>, FALSE)

\* Variant of stopsAfterAttempt that goes on after a report.
stopsAfterAttempt_never(reported) == FALSE

\* The for loop of run(): a reporting attempt ends the run.
stopsAfterAttempt(reported) == reported

\* ------------------------------------------------------------------------
\* Functions the pass is run on
\* ------------------------------------------------------------------------

ArgNode(i)        == [kind |-> "arg", idx |-> i, reads |-> FALSE,
                      marker |-> FALSE, ops |-> << >>]

InstNode(rd, ops) == [kind |-> "inst", idx |-> 0, reads |-> rd,
                      marker |-> FALSE, ops |-> ops]

MarkerNode(v)     == [kind |-> "inst", idx |-> 0, reads |-> FALSE,
                      marker |-> TRUE, ops |-> <<v>>]

OtherNode         == [kind |-> "other", idx |-> 0, reads |-> FALSE,
                      marker |-> FALSE, ops |-> << >>]

\* What the module answers about a callee that is not dispatched.
NoMethod ==
  [classInOtherModule |-> FALSE, calleesAreStaticallyKnowable |-> FALSE,
   isOverridden |-> FALSE, target |-> "none"]

\* A class of this module, callees statically knowable, no override, and the
\* vtable or witness table entry is the containing function.
ResolvedToSelf ==
  [classInOtherModule |-> FALSE, calleesAreStaticallyKnowable |-> TRUE,
   isOverridden |-> FALSE, target |-> "self"]

RecCall(args) == [kind |-> "apply", callee |-> "self", writes |-> TRUE,
                  args |-> args, method |-> NoMethod,
                  terminationPoint |-> FALSE]

\* A call of another function that is a program termination point.
PtpCall       == [kind |-> "apply", callee |-> "other", writes |-> TRUE,
                  args |-> << >>, method |-> NoMethod,
                  terminationPoint |-> TRUE]

\* The call as it is when its callee is a program termination point.
ToTerminationPoint(call) == [call EXCEPT !.terminationPoint = TRUE]

\* A full apply of a callee other than a function_ref to the function or to
\* a program termination point.
Call(callee, method, args) ==
  [kind |-> "apply", callee |-> callee, writes |-> TRUE, args |-> args,
   method |-> method, terminationPoint |-> FALSE]

Store         == [kind |-> "store", callee |-> "none", writes |-> TRUE,
                  args |-> << >>, method |-> NoMethod,
                  terminationPoint |-> FALSE]

Plain         == [kind |-> "inst", callee |-> "none", writes |-> FALSE,
                  args |-> << >>, method |-> NoMethod,
                  terminationPoint |-> FALSE]

Block(insts, term, cond, succs) ==
  [insts |-> insts, term |-> term, cond |-> cond, succs |-> succs]

\* Value graph of the one-argument functions:
\*   1 = x, 2 = literal, 3 = x > 0, 4 = guard read from memory,
\*   5 = undef / block argument, 6 = x - 1, 7 = begin_access x, 8 = x - 2
V == [x |-> 1, lit |-> 2, cmp |-> 3, guard |-> 4, undef |-> 5, sub1 |-> 6,
      accX |-> 7, sub2 |-> 8]

OneArgVals ==
  << ArgNode(0), InstNode(FALSE, << >>), InstNode(FALSE, <<V.x, V.lit>>),
     InstNode(TRUE, <<V.lit>>), OtherNode, InstNode(FALSE, <<V.x, V.lit>>),
     MarkerNode(V.x), InstNode(FALSE, <<V.x, V.lit>>) >>

\* Block shapes of the generated functions; i is the block, n the number of
\* blocks, "next" the block after i (wrapping around to the entry block).
BlockKinds == {"R", "Cf", "Cn", "Cw", "W", "P", "Pr", "J", "Ba", "Bm", "Bo", "D",
               "L"}

nextBlock(i, n) == (i % n) + 1

KindBlock(k, i, n) ==
  LET nx  == nextBlock(i, n)
      nx2 == nextBlock(nx, n)
  IN CASE k = "R"  -> Block(<< >>, "return", 0, << >>)
       [] k = "Cf" -> Block(<<RecCall(<<V.accX>>)>>, "br", 0, <<nx>>)
       [] k = "Cn" -> Block(<<RecCall(<<V.sub1>>)>>, "br", 0, <<nx>>)
       [] k = "Cw" -> Block(<<Store, RecCall(<<V.x>>)>>, "br", 0, <<nx>>)
       [] k = "W"  -> Block(<<Store>>, "br", 0, <<nx>>)
       [] k = "P"  -> Block(<<PtpCall>>, "unreachable", 0, << >>)
       [] k = "Pr" -> Block(<<PtpCall, RecCall(<<V.x>>)>>, "unreachable", 0,
                            << >>)
       [] k = "J"  -> Block(<<Plain>>, "br", 0, <<nx>>)
       [] k = "Ba" -> Block(<<Plain>>, "cond_br", V.cmp, <<nx, nx2>>)
       [] k = "Bm" -> Block(<<Plain>>, "cond_br", V.guard, <<nx, nx2>>)
       [] k = "Bo" -> Block(<< >>, "cond_br", V.undef, <<nx, nx2>>)
       [] k = "D"  -> Block(<< >>, "cond_br", V.cmp, <<nx, nx>>)
       [] k = "L"  -> Block(<< >>, "cond_br", V.undef, <<i, nx>>)

GeneratedFrom(kinds) ==
  { [nargs |-> 1, deserialized |-> FALSE, vals |-> OneArgVals,
     blocks |-> [i \in 1..MaxBlocks |-> KindBlock(ks[i], i, MaxBlocks)]] :
    ks \in [1..MaxBlocks -> kinds] }

GeneratedFunctions == GeneratedFrom(BlockKinds)

\* The block shapes that make returns, self-calls, branches, cycles,
\* self-loops and duplicate edges.
LoopKinds == {"R", "Cf", "Cn", "J", "Ba", "D", "L"}

\* func f() { f() }
ScenarioA ==
  [nargs |-> 0, deserialized |-> FALSE, vals |-> << >>,
   blocks |-> << Block(<<RecCall(<< >>)>>, "return", 0, << >>) >>]

\* func f(_ x: Int) { if x > 0 { f(x) } }
ScenarioB ==
  [nargs |-> 1, deserialized |-> FALSE, vals |-> OneArgVals,
   blocks |-> << Block(<<Plain, Plain>>, "cond_br", V.cmp, <<2, 3>>),
                 Block(<<RecCall(<<V.x>>)>>, "br", 0, <<3>>),
                 Block(<< >>, "return", 0, << >>) >>]

\* func g(_ x: Int) { if x > 0 { g(x - 1) } else { g(x - 2) } }
ScenarioC ==
  [nargs |-> 1, deserialized |-> FALSE, vals |-> OneArgVals,
   blocks |-> << Block(<<Plain, Plain>>, "cond_br", V.cmp, <<2, 3>>),
                 Block(<<Plain, Plain, RecCall(<<V.sub1>>)>>, "br", 0, <<4>>),
                 Block(<<Plain, Plain, RecCall(<<V.sub2>>)>>, "br", 0, <<4>>),
                 Block(<< >>, "return", 0, << >>) >>]

\* func f() { if #available(...) { f() } }: the guard (value 2) is read from
\* memory and depends on no argument.
ScenarioD ==
  [nargs |-> 0, deserialized |-> FALSE,
   vals |-> << InstNode(FALSE, << >>), InstNode(TRUE, <<1>>) >>,
   blocks |-> << Block(<<Plain, Plain>>, "cond_br", 2, <<2, 3>>),
                 Block(<<RecCall(<< >>)>>, "br", 0, <<3>>),
                 Block(<< >>, "return", 0, << >>) >>]

\* A function of three arguments whose self-calls forward six different
\* combinations of them, behind a condition that is never invariant.
ManyCalls ==
  [nargs |-> 3, deserialized |-> FALSE,
   vals |-> << ArgNode(0), ArgNode(1), ArgNode(2), InstNode(FALSE, << >>),
               OtherNode >>,
   blocks |-> << Block(<< >>, "cond_br", 5, <<2, 3>>),
                 Block(<< RecCall(<<1, 4, 4>>), RecCall(<<4, 2, 4>>),
                          RecCall(<<4, 4, 3>>), RecCall(<<1, 2, 4>>),
                          RecCall(<<1, 4, 3>>), RecCall(<<1, 2, 3>>) >>,
                       "br", 0, <<3>>),
                 Block(<< >>, "return", 0, << >>) >>]

\* ScenarioA as a function deserialized in canonical form.
Deserialized == [ScenarioA EXCEPT !.deserialized = TRUE]

\* A function of 18 arguments (positions 0..17) that calls itself forwarding
\* every argument unchanged, under a condition computed from its argument at
\* position condArg (value 19).
WideForward(condArg) ==
  [nargs |-> 18, deserialized |-> FALSE,
   vals |-> [i \in 1..18 |-> ArgNode(i - 1)]
              \o << InstNode(FALSE, <<incomingArg(0, condArg)>>) >>,
   blocks |-> << Block(<< >>, "cond_br", 19, <<2, 3>>),
                 Block(<<RecCall([i \in 1..18 |-> i])>>, "br", 0, <<3>>),
                 Block(<< >>, "return", 0, << >>) >>]

\* func f() { if guard { store; f() } else if guard { return } else { f() } }
\* with a guard (value 2) read from memory: the self-call of block 4 lies
\* behind the store of block 2.
GuardedPaths ==
  [nargs |-> 0, deserialized |-> FALSE,
   vals |-> << InstNode(FALSE, << >>), InstNode(TRUE, <<1>>) >>,
   blocks |-> << Block(<<Plain>>, "cond_br", 2, <<2, 3>>),
                 Block(<<Store>>, "br", 0, <<4>>),
                 Block(<<Plain>>, "cond_br", 2, <<5, 6>>),
                 Block(<<RecCall(<< >>)>>, "return", 0, << >>),
                 Block(<< >>, "return", 0, << >>),
                 Block(<<RecCall(<< >>)>>, "br", 0, <<5>>) >>]

\* func f(_ x: Int) { if ? { while x > 0 {} } else { f(x) } }: block 2 loops
\* to itself under a condition computed from the argument, and both edges of
\* block 4, which has the same condition, lead to the returning block.
InvariantLoop ==
  [nargs |-> 1, deserialized |-> FALSE, vals |-> OneArgVals,
   blocks |-> << Block(<< >>, "cond_br", V.undef, <<2, 3>>),
                 Block(<<Plain>>, "cond_br", V.cmp, <<2, 4>>),
                 Block(<<RecCall(<<V.x>>)>>, "br", 0, <<4>>),
                 Block(<< >>, "cond_br", V.cmp, <<5, 5>>),
                 Block(<< >>, "return", 0, << >>) >>]

\* A function of one argument whose blocks 2..9 hold program-termination-
\* point calls, self-calls and stores in different orders, all ending in a
\* return but block 9.
ScanOrders ==
  [nargs |-> 1, deserialized |-> FALSE, vals |-> OneArgVals,
   blocks |-> << Block(<< >>, "switch_enum", V.undef, <<2, 3, 4, 5, 6, 7, 8, 9>>),
                 Block(<<PtpCall>>, "return", 0, << >>),
                 Block(<<RecCall(<<V.x>>), PtpCall>>, "return", 0, << >>),
                 Block(<<RecCall(<<V.x>>), Store>>, "return", 0, << >>),
                 Block(<<Store, PtpCall>>, "return", 0, << >>),
                 Block(<<PtpCall, Store>>, "return", 0, << >>),
                 Block(<<Store, RecCall(<<V.x>>)>>, "return", 0, << >>),
                 Block(<<Plain, Plain>>, "return", 0, << >>),
                 Block(<<Plain, Store>>, "br", 0, <<8>>) >>]

\* func f(_ x: Int) { if x > 0 { f(x) } else if x > 0 { f(x - 1) } }: the
\* call of block 2 forwards the argument, the call of block 5 does not.
MixedCalls ==
  [nargs |-> 1, deserialized |-> FALSE, vals |-> OneArgVals,
   blocks |-> << Block(<<Plain>>, "cond_br", V.cmp, <<2, 3>>),
                 Block(<<RecCall(<<V.x>>)>>, "br", 0, <<4>>),
                 Block(<<Plain>>, "cond_br", V.cmp, <<4, 5>>),
                 Block(<< >>, "return", 0, << >>),
                 Block(<<RecCall(<<V.sub1>>)>>, "br", 0, <<4>>) >>]

\* The callees of a full apply other than a function_ref to the function or
\* to a program termination point, with every answer of the module.
OtherCallees ==
  {"other", "super_method", "objc_super_method", "objc_method",
   "class_method", "witness_method", "closure"}

MethodAnswers ==
  [classInOtherModule : BOOLEAN, calleesAreStaticallyKnowable : BOOLEAN,
   isOverridden : BOOLEAN, target : {"self", "other"}]

\* func f() { <call> }, and func f(_ x: Int) { if x > 0 { <call>(x) } } with
\* a class method or a witness method that resolves to f.
CalleeFunctions ==
  { [nargs |-> 0, deserialized |-> FALSE, vals |-> << >>,
     blocks |-> << Block(<<Call(c, m, << >>)>>, "return", 0, << >>) >>] :
    c \in OtherCallees, m \in MethodAnswers }
  \cup
  { [nargs |-> 1, deserialized |-> FALSE, vals |-> OneArgVals,
     blocks |-> << Block(<<Plain, Plain>>, "cond_br", V.cmp, <<2, 3>>),
                   Block(<<Call(c, ResolvedToSelf, <<V.x>>)>>, "br", 0, <<3>>),
                   Block(<< >>, "return", 0, << >>) >>] :
    c \in {"class_method", "witness_method"} }

\* Functions that are program termination points themselves and call
\* themselves: by function_ref, without and with an argument, behind a
\* guard, after a store, and by a class method and a witness method.
TerminationPointFunctions ==
  { [nargs |-> 0, deserialized |-> FALSE, vals |-> << >>,
     blocks |-> << Block(<<ToTerminationPoint(call)>>, "return", 0, << >>) >>] :
    call \in {RecCall(<< >>), Call("class_method", ResolvedToSelf, << >>),
              Call("witness_method", ResolvedToSelf, << >>)} }
  \cup
  { [nargs |-> 1, deserialized |-> FALSE, vals |-> OneArgVals,
     blocks |-> << Block(<<ToTerminationPoint(RecCall(<<V.x>>))>>,
                         "return", 0, << >>) >>],
    [nargs |-> 1, deserialized |-> FALSE, vals |-> OneArgVals,
     blocks |-> << Block(<<Store, ToTerminationPoint(RecCall(<<V.x>>))>>,
                         "return", 0, << >>) >>],
    [nargs |-> 1, deserialized |-> FALSE, vals |-> OneArgVals,
     blocks |-> << Block(<<Plain, Plain>>, "cond_br", V.cmp, <<2, 3>>),
                   Block(<<ToTerminationPoint(RecCall(<<V.x>>))>>,
                         "br", 0, <<3>>),
                   Block(<< >>, "return", 0, << >>) >>],
    [nargs |-> 1, deserialized |-> FALSE, vals |-> OneArgVals,
     blocks |-> << Block(<<Plain>>, "cond_br", V.cmp, <<2, 3>>),
                   Block(<<ToTerminationPoint(RecCall(<<V.x>>))>>,
                         "br", 0, <<1>>),
                   Block(<<ToTerminationPoint(RecCall(<<V.sub1>>))>>,
                         "unreachable", 0, << >>) >>] }

\* Hand-built functions for the cases the generated family does not make.
CornerFunctions ==
  {WideForward(16), WideForward(17), GuardedPaths, InvariantLoop, ScanOrders,
   MixedCalls}

Functions ==
  GeneratedFunctions
    \cup {ScenarioA, ScenarioB, ScenarioC, ScenarioD, ManyCalls, Deserialized}
    \cup CornerFunctions
    \cup CalleeFunctions
    \cup TerminationPointFunctions

\* The functions of the termination check.
LoopFunctions ==
  GeneratedFrom(LoopKinds) \cup {ScenarioA, ScenarioB, ScenarioC, ManyCalls}

\* Two self-calls on the two branches of the entry block, in front of a
\* block that branches twice to the returning block.
TwoCalls ==
  [nargs |-> 1, deserialized |-> FALSE, vals |-> OneArgVals,
   blocks |-> << Block(<< >>, "cond_br", V.undef, <<2, 3>>),
                 Block(<< RecCall(<<V.x>>) >>, "br", 0, <<4>>),
                 Block(<< RecCall(<<V.x>>) >>, "br", 0, <<4>>),
                 Block(<< >>, "cond_br", V.cmp, <<5, 5>>),
                 Block(<< >>, "return", 0, << >>) >>]

\* The functions whose passes are run in every order: those with at most
\* four successors or predecessors at a block.
OrderFunctions == (Functions \ {ScanOrders}) \cup {TwoCalls}

\* Node shapes of the generated value graphs; i is the node, "next" the node
\* after i among the generated nodes 2..MaxNodes+1 (wrapping around), value 1
\* is the function's argument.
\* "nib", "fles" and "xgra" are "bin", "self" and "argx" with the operands
\* in the other order; "undef" is a value that is neither an instruction nor
\* a function argument.
NodeKinds == {"lit", "bin", "nib", "dup", "self", "fles", "load", "argx",
              "xgra", "undef"}

nextNode(i) == IF i > MaxNodes THEN 2 ELSE i + 1

KindNode(k, i) ==
  LET nx  == nextNode(i)
      nx2 == nextNode(nx)
  IN CASE k = "lit"  -> InstNode(FALSE, << >>)
       [] k = "bin"  -> InstNode(FALSE, <<nx, nx2>>)
       [] k = "nib"  -> InstNode(FALSE, <<nx2, nx>>)
       [] k = "dup"  -> InstNode(FALSE, <<nx, nx>>)
       [] k = "self" -> InstNode(FALSE, <<i, nx>>)
       [] k = "fles" -> InstNode(FALSE, <<nx, i>>)
       [] k = "load" -> InstNode(TRUE, <<nx>>)
       [] k = "argx" -> InstNode(FALSE, <<V.x, nx>>)
       [] k = "xgra" -> InstNode(FALSE, <<nx, V.x>>)
       [] k = "undef" -> OtherNode

\* func f(_ x: Int) { if <value 2> { f(x) } } over every generated value
\* graph, cyclic ones included.
WalkFunctions ==
  { [nargs |-> 1, deserialized |-> FALSE,
     vals |-> <<ArgNode(0)>> \o [i \in 1..MaxNodes |-> KindNode(ks[i], i + 1)],
     blocks |-> << Block(<< >>, "cond_br", 2, <<2, 3>>),
                   Block(<<RecCall(<<V.x>>)>>, "br", 0, <<3>>),
                   Block(<< >>, "return", 0, << >>) >>] :
    ks \in [1..MaxNodes -> NodeKinds] }

\* The assumptions the walker is run under: none(), memory, argument 0, both.
WalkMasks ==
  {noInvariants, withInvariantMemory(noInvariants),
   orBit(noInvariants, firstArgBit),
   withInvariantMemory(orBit(noInvariants, firstArgBit))}

\* ------------------------------------------------------------------------
\* State
\* ------------------------------------------------------------------------

VARIABLES
  fn,               \* the function the pass runs on
  pc,               \* "start", "attempt", "backward", "forward", "done"
  invariantsToTry,  \* the InvariantsSet of run()
  candIdx,          \* position of the for loop of run() in invariantsToTry
  withMem,          \* FALSE: first call in the loop body, TRUE: second call
  blockInfos,       \* block-info map of the latest analysis object
  workList,         \* worklist of the pass in progress
  foundInfiniteRecursion,
  diags,            \* diagnostics emitted in this run, <<block, inst>> each
  attempts,         \* history: one record per analyzeAndDiagnose call
  pushes,           \* history: worklist pushes per block in this attempt
  runNo,            \* number of the run in progress
  prevAttempts,     \* history: attempts of the previous run
  prevDiags,        \* history: diagnostics of the previous run
  walk              \* one invocation of isInvariantValue, step by step

vars == <<fn, pc, invariantsToTry, candIdx, withMem, blockInfos, workList,
          foundInfiniteRecursion, diags, attempts, pushes, runNo,
          prevAttempts, prevDiags, walk>>

\* No use-def walk is being stepped through.
WalkIdle ==
  [pcw |-> "idle", bitMask |-> noInvariants, value |-> 0, stack |-> << >>,
   visited |-> {}, ret |-> FALSE, expanded |-> << >>]

InitOn(functions) ==
  /\ fn \in functions
  /\ pc = "start"
  /\ invariantsToTry = << >>
  /\ candIdx = 0
  /\ withMem = FALSE
  /\ blockInfos = << >>
  /\ workList = << >>
  /\ foundInfiniteRecursion = FALSE
  /\ diags = << >>
  /\ attempts = << >>
  /\ pushes = << >>
  /\ runNo = 1
  /\ prevAttempts = << >>
  /\ prevDiags = << >>
  /\ walk = WalkIdle

Init == InitOn(Functions)

\* The invariants of the analyzeAndDiagnose call the driver is at.
currentInvariants ==
  IF withMem
  THEN withInvariantMemory(invariantsToTry[candIdx])
  ELSE invariantsToTry[candIdx]

\* The last attempt of the history with field changes applied.
noteEntry(reaches) ==
  [attempts EXCEPT ![Len(attempts)].entryReachesReturn = reaches,
                   ![Len(attempts)].backwardDone = TRUE]

\* Pushes added to a worklist that had `before` entries left after the pop.
countPushes(field, before, after) ==
  [b \in DOMAIN pushes |->
     [pushes[b] EXCEPT ![field] =
        LET n == @ + Cardinality({k \in (before + 1)..Len(after) :
                                    after[k] = b})
        IN IF n > MaxPushCount THEN MaxPushCount ELSE n]]

\* analyzeAndDiagnose returned false: the driver goes on with the second call
\* of the loop body, the next candidate, or the end of run().
Continue ==
  IF ~withMem
  THEN /\ pc' = "attempt"
       /\ withMem' = TRUE
       /\ candIdx' = candIdx
  ELSE IF candIdx < Len(invariantsToTry)
  THEN /\ pc' = "attempt"
       /\ withMem' = FALSE
       /\ candIdx' = candIdx + 1
  ELSE /\ pc' = "done"
       /\ UNCHANGED <<withMem, candIdx>>

\* ------------------------------------------------------------------------
\* Actions
\* ------------------------------------------------------------------------

\* run() up to the for loop.
Run ==
  /\ pc = "start"
  /\ IF fn.deserialized
     THEN /\ pc' = "done"
          /\ UNCHANGED <<invariantsToTry, candIdx>>
     ELSE LET c == collectInvariantsToTry(fn)
          IN /\ invariantsToTry' = c.invariantsToTry
             /\ IF c.found
                THEN pc' = "attempt" /\ candIdx' = 1
                ELSE pc' = "done" /\ UNCHANGED candIdx
  /\ UNCHANGED <<fn, walk, withMem, blockInfos, workList, foundInfiniteRecursion,
                 diags, attempts, pushes, runNo, prevAttempts,
                 prevDiags>>

\* analyzeAndDiagnose: a new analysis object, and the first loop of
\* isEntryReachableFromReturn.
StartAttempt ==
  /\ pc = "attempt"
  /\ LET r == initBlockInfos(fn, currentInvariants, 1,
                             newBlockInfos(blockInfos), << >>)
     IN /\ blockInfos' = r.infos
        /\ workList' = r.workList
        /\ pushes' = [b \in Blocks(fn) |->
              [bw |-> Cardinality({k \in 1..Len(r.workList) :
                                     r.workList[k] = b}),
               fw |-> 0]]
  /\ attempts' = Append(attempts,
       [invariants |-> currentInvariants, backwardDone |-> FALSE,
        entryReachesReturn |-> FALSE, forwardRun |-> FALSE,
        diags |-> << >>])
  /\ pc' = "backward"
  /\ UNCHANGED <<fn, walk, invariantsToTry, candIdx, withMem,
                 foundInfiniteRecursion, diags, runNo, prevAttempts,
                 prevDiags>>

\* One iteration of the while loop of isEntryReachableFromReturn.
BackwardStep ==
  /\ pc = "backward"
  /\ workList # << >>
  /\ LET block == backVal(workList)
         rest  == popBack(workList)
         r     == visitPredecessors(getPredecessorBlocks(fn, block), 1,
                                    blockInfos, rest)
     IN /\ blockInfos' = r.infos
        /\ workList' = r.workList
        /\ pushes' = countPushes("bw", Len(rest), r.workList)
  /\ UNCHANGED <<fn, walk, pc, invariantsToTry, candIdx, withMem,
                 foundInfiniteRecursion, diags, attempts, runNo, prevAttempts,
                 prevDiags>>

\* isEntryReachableFromReturn returns true: analyzeAndDiagnose returns false.
BackwardReachedEntry ==
  /\ pc = "backward"
  /\ workList = << >>
  /\ ~runsForwardPass(blockInfos[EntryBlock].reachesReturn)
  /\ attempts' = noteEntry(blockInfos[EntryBlock].reachesReturn)
  /\ Continue
  /\ UNCHANGED <<fn, walk, invariantsToTry, blockInfos, workList,
                 foundInfiniteRecursion, diags, pushes, runNo, prevAttempts,
                 prevDiags>>

\* isEntryReachableFromReturn returns false: findRecursiveCallsAndDiagnose
\* up to its while loop.
ForwardStart ==
  /\ pc = "backward"
  /\ workList = << >>
  /\ runsForwardPass(blockInfos[EntryBlock].reachesReturn)
  /\ attempts' = [noteEntry(blockInfos[EntryBlock].reachesReturn)
                    EXCEPT ![Len(attempts)].forwardRun = TRUE]
  /\ blockInfos' = [blockInfos EXCEPT ![EntryBlock].reachableFromEntry = TRUE]
  /\ workList' = <<EntryBlock>>
  /\ pushes' = [pushes EXCEPT ![EntryBlock].fw = 1]
  /\ foundInfiniteRecursion' = FALSE
  /\ pc' = "forward"
  /\ UNCHANGED <<fn, walk, invariantsToTry, candIdx, withMem, diags, runNo,
                 prevAttempts,
                 prevDiags>>

\* One iteration of the while loop of findRecursiveCallsAndDiagnose.
ForwardStep ==
  /\ pc = "forward"
  /\ workList # << >>
  /\ LET block == backVal(workList)
         rest  == popBack(workList)
         call  == blockInfos[block].recursiveCall
     IN IF call # 0
        THEN /\ diags' = Append(diags, <<block, call>>)
             /\ attempts' = [attempts EXCEPT ![Len(attempts)].diags =
                                Append(@, <<block, call>>)]
             /\ foundInfiniteRecursion' = TRUE
             /\ workList' = rest
             /\ UNCHANGED <<blockInfos, pushes>>
        ELSE LET r == visitSuccessors(getSuccessorBlocks(fn, block), 1,
                                      blockInfos, rest)
             IN /\ blockInfos' = r.infos
                /\ workList' = r.workList
                /\ pushes' = countPushes("fw", Len(rest), r.workList)
                /\ UNCHANGED <<diags, attempts, foundInfiniteRecursion>>
  /\ UNCHANGED <<fn, walk, pc, invariantsToTry, candIdx, withMem, runNo,
                 prevAttempts,
                 prevDiags>>

\* findRecursiveCallsAndDiagnose returns, and with it analyzeAndDiagnose.
ForwardReturn ==
  /\ pc = "forward"
  /\ workList = << >>
  /\ IF stopsAfterAttempt(foundInfiniteRecursion)
     THEN pc' = "done" /\ UNCHANGED <<candIdx, withMem>>
     ELSE Continue
  /\ UNCHANGED <<fn, walk, invariantsToTry, blockInfos, workList,
                 foundInfiniteRecursion, diags, attempts, pushes, runNo,
                 prevAttempts,
                 prevDiags>>

\* The pass is run again on the same, unmodified function.
Rerun ==
  /\ pc = "done"
  /\ runNo < MaxRuns
  /\ runNo' = runNo + 1
  /\ prevAttempts' = attempts
  /\ prevDiags' = diags
  /\ pc' = "start"
  /\ invariantsToTry' = << >>
  /\ candIdx' = 0
  /\ withMem' = FALSE
  /\ workList' = << >>
  /\ foundInfiniteRecursion' = FALSE
  /\ diags' = << >>
  /\ attempts' = << >>
  /\ UNCHANGED <<fn, walk, blockInfos, pushes>>

Next ==
  \/ Run
  \/ StartAttempt
  \/ BackwardStep
  \/ BackwardReachedEntry
  \/ ForwardStart
  \/ ForwardStep
  \/ ForwardReturn
  \/ Rerun

Spec == Init /\ [][Next]_vars

\* One run of the pass.
NextOnce ==
  \/ Run
  \/ StartAttempt
  \/ BackwardStep
  \/ BackwardReachedEntry
  \/ ForwardStart
  \/ ForwardStep
  \/ ForwardReturn

\* One run of the pass on each function.
RunSpec == Init /\ [][NextOnce]_vars

\* The pass is a sequential program: a step that can be taken is taken.
FairSpec == InitOn(LoopFunctions) /\ [][NextOnce]_vars /\ WF_vars(NextOnce)

\* An iteration of the while loop of isEntryReachableFromReturn with the
\* block taken from any place of the worklist and the predecessors visited
\* in any order.
BackwardStepAnyOrder ==
  /\ pc = "backward"
  /\ workList # << >>
  /\ \E k \in DOMAIN workList :
       \E preds \in orderings(getPredecessorBlocks(fn, workList[k])) :
         LET rest == removeAt(workList, k)
             r    == visitPredecessors(preds, 1, blockInfos, rest)
         IN /\ blockInfos' = r.infos
            /\ workList' = r.workList
            /\ pushes' = countPushes("bw", Len(rest), r.workList)
  /\ UNCHANGED <<fn, walk, pc, invariantsToTry, candIdx, withMem,
                 foundInfiniteRecursion, diags, attempts, runNo, prevAttempts,
                 prevDiags>>

\* An iteration of the while loop of findRecursiveCallsAndDiagnose with the
\* block taken from any place of the worklist and the successors visited in
\* any order.
ForwardStepAnyOrder ==
  /\ pc = "forward"
  /\ workList # << >>
  /\ \E k \in DOMAIN workList :
       LET block == workList[k]
           rest  == removeAt(workList, k)
           call  == blockInfos[block].recursiveCall
       IN IF call # 0
          THEN /\ diags' = Append(diags, <<block, call>>)
               /\ attempts' = [attempts EXCEPT ![Len(attempts)].diags =
                                  Append(@, <<block, call>>)]
               /\ foundInfiniteRecursion' = TRUE
               /\ workList' = rest
               /\ UNCHANGED <<blockInfos, pushes>>
          ELSE \E succs \in orderings(getSuccessorBlocks(fn, block)) :
                 LET r == visitSuccessors(succs, 1, blockInfos, rest)
                 IN /\ blockInfos' = r.infos
                    /\ workList' = r.workList
                    /\ pushes' = countPushes("fw", Len(rest), r.workList)
                    /\ UNCHANGED <<diags, attempts, foundInfiniteRecursion>>
  /\ UNCHANGED <<fn, walk, pc, invariantsToTry, candIdx, withMem, runNo,
                 prevAttempts,
                 prevDiags>>

NextAnyOrder ==
  \/ Run
  \/ StartAttempt
  \/ BackwardStepAnyOrder
  \/ BackwardReachedEntry
  \/ ForwardStart
  \/ ForwardStepAnyOrder
  \/ ForwardReturn

\* One run of the pass on each function of OrderFunctions, the worklists
\* and the predecessor and successor lists taken in every order.
AnyOrderSpec == InitOn(OrderFunctions) /\ [][NextAnyOrder]_vars

\* ------------------------------------------------------------------------
\* Invariants::isInvariantValue, one call, loop iteration or return per step
\* ------------------------------------------------------------------------

\* Variant of visitedInsert that reports every node as newly inserted.
visitedInsert_always(visited, node) ==
  [set |-> visited \cup {node}, second |-> TRUE]

\* visited.insert(node): the set afterwards, and whether node was new.
visitedInsert(visited, node) ==
  [set |-> visited \cup {node}, second |-> node \notin visited]

\* isInvariant(term) calls isInvariantValue on the terminator's operand with
\* an empty visited set.
WalkBegin(f, bitMask) ==
  [pcw |-> "call", bitMask |-> bitMask, value |-> f.blocks[EntryBlock].cond,
   stack |-> << >>, visited |-> {}, ret |-> FALSE,
   expanded |-> [v \in DOMAIN f.vals |-> 0]]

WalkInit ==
  /\ fn \in WalkFunctions
  /\ walk \in {WalkBegin(fn, bitMask) : bitMask \in WalkMasks}
  /\ pc = "start"
  /\ invariantsToTry = << >>
  /\ candIdx = 0
  /\ withMem = FALSE
  /\ blockInfos = << >>
  /\ workList = << >>
  /\ foundInfiniteRecursion = FALSE
  /\ diags = << >>
  /\ attempts = << >>
  /\ pushes = << >>
  /\ runNo = 1
  /\ prevAttempts = << >>
  /\ prevDiags = << >>

\* The walker returns r to its caller.
walkReturns(w, r) == [w EXCEPT !.pcw = "ret", !.ret = r]

\* A call of isInvariantValue(walk.value, visited) up to its first return
\* or to the head of its operand loop. expanded counts, per node, the calls
\* that got past the visited check.
WalkCall ==
  /\ walk.pcw = "call"
  /\ LET node == walk.value
         ins  == visitedInsert(walk.visited, node)
         in1  == [walk EXCEPT !.visited = ins.set]
         in2  == [in1 EXCEPT !.expanded[node] =
                    IF @ < MaxPushCount THEN @ + 1 ELSE @]
     IN walk' =
          IF ~ins.second
          THEN walkReturns(in1, TRUE)
          ELSE IF fn.vals[node].kind = "inst"
          THEN IF ~isMemoryInvariant(walk.bitMask) /\ fn.vals[node].reads
               THEN walkReturns(in2, FALSE)
               ELSE [in2 EXCEPT !.pcw = "loop",
                                !.stack = Append(@, [node |-> node, i |-> 1])]
          ELSE IF fn.vals[node].kind = "arg"
          THEN walkReturns(in2, isArgumentInvariant(walk.bitMask,
                                                    fn.vals[node].idx))
          ELSE walkReturns(in2, FALSE)
  /\ UNCHANGED <<fn, pc, invariantsToTry, candIdx, withMem, blockInfos,
                 workList, foundInfiniteRecursion, diags, attempts, pushes,
                 runNo, prevAttempts, prevDiags>>

\* The head of for (Operand &op : inst->getAllOperands()): the next operand
\* is walked, or the loop is over and the call returns true.
WalkOperand ==
  /\ walk.pcw = "loop"
  /\ LET top == walk.stack[Len(walk.stack)]
         ops == fn.vals[top.node].ops
     IN walk' =
          IF top.i > Len(ops)
          THEN walkReturns([walk EXCEPT !.stack = popBack(@)], TRUE)
          ELSE [walk EXCEPT !.pcw = "call", !.value = ops[top.i]]
  /\ UNCHANGED <<fn, pc, invariantsToTry, candIdx, withMem, blockInfos,
                 workList, foundInfiniteRecursion, diags, attempts, pushes,
                 runNo, prevAttempts, prevDiags>>

\* A call has returned: to isInvariant(term), or into the operand loop of
\* its caller, which returns false in turn or goes on with the next operand.
WalkReturn ==
  /\ walk.pcw = "ret"
  /\ walk' =
       IF walk.stack = << >>
       THEN [walk EXCEPT !.pcw = "done"]
       ELSE IF ~walk.ret
       THEN walkReturns([walk EXCEPT !.stack = popBack(@)], FALSE)
       ELSE [walk EXCEPT !.pcw = "loop", !.stack[Len(walk.stack)].i = @ + 1]
  /\ UNCHANGED <<fn, pc, invariantsToTry, candIdx, withMem, blockInfos,
                 workList, foundInfiniteRecursion, diags, attempts, pushes,
                 runNo, prevAttempts, prevDiags>>

WalkNext ==
  \/ WalkCall
  \/ WalkOperand
  \/ WalkReturn

\* The walker is sequential code: a step that can be taken is taken.
WalkSpec == WalkInit /\ [][WalkNext]_vars /\ WF_vars(WalkNext)

\* ------------------------------------------------------------------------
\* Vocabulary of the properties
\* ------------------------------------------------------------------------

\* Blocks reachable from `reached` over edges that leave a block of `through`.
RECURSIVE reachableThrough(_, _, _)
reachableThrough(f, reached, through) ==
  LET more == reached \cup
                {s \in Blocks(f) :
                   \E p \in reached \cap through :
                     \E k \in DOMAIN f.blocks[p].succs :
                       f.blocks[p].succs[k] = s}
  IN IF more = reached THEN reached ELSE reachableThrough(f, more, through)

\* Blocks that hold a recursive-call-site under the assumption.
CallSiteBlocks(f, bitMask) ==
  {b \in Blocks(f) : BlockInfo(f, b, bitMask).recursiveCall # 0}

\* Blocks whose summary is built with reaches-return set.
SeededBlocks(f, bitMask) ==
  {b \in Blocks(f) : BlockInfo(f, b, bitMask).reachesReturn}

\* Blocks whose summary has the invariant-condition flag.
InvariantConditionBlocks(f, bitMask) ==
  {b \in Blocks(f) : BlockInfo(f, b, bitMask).hasInvariantCondition}

\* Blocks whose terminator is a normal function exit.
ReturnBlocks(f) == {b \in Blocks(f) : f.blocks[b].term = "return"}

\* There is a path of edges from the entry block to a returning block on
\* which no block holds a recursive-call-site under the assumption.
HasReturnPathAvoidingCalls(f, bitMask) ==
  LET free == Blocks(f) \ CallSiteBlocks(f, bitMask)
  IN EntryBlock \in free
     /\ reachableThrough(f, {EntryBlock}, free) \cap free \cap ReturnBlocks(f)
          # {}

\* There is a path of edges from the entry block to a block seeded
\* reaches-return on which no earlier block holds a recursive-call-site or
\* an invariant condition under the assumption.
HasPlainPathToSeeded(f, bitMask) ==
  LET plain == Blocks(f) \ (CallSiteBlocks(f, bitMask)
                            \cup InvariantConditionBlocks(f, bitMask))
  IN reachableThrough(f, {EntryBlock}, plain) \cap SeededBlocks(f, bitMask)
       # {}

\* The instruction is a call that is sure to enter the function itself: the
\* function is named, or the dispatch is resolved to it with no other
\* target possible.
CallsItself(inst) ==
  /\ inst.kind = "apply"
  /\ \/ inst.callee = "self"
     \/ /\ inst.callee = "class_method"
        /\ inst.method = ResolvedToSelf
     \/ /\ inst.callee = "witness_method"
        /\ inst.method.target = "self"

\* The instructions <<block, index>> that call the function itself.
SelfCalls(f) ==
  {<<b, i>> \in Blocks(f) \X (1..8) :
     i <= Len(f.blocks[b].insts) /\ CallsItself(f.blocks[b].insts[i])}

NoDuplicates(seq) ==
  \A i, j \in 1..Len(seq) : seq[i] = seq[j] => i = j

\* An attempt of the history, as <<assumption, entry reaches return,
\* diagnostics>>.
Outcome(a) == <<a.invariants, a.entryReachesReturn, a.diags>>

Outcomes == [k \in 1..Len(attempts) |-> Outcome(attempts[k])]

\* The assumptions "memory is invariant" and "argument 0 is invariant".
InvMem  == 2 ^ 0
InvArg0 == 2 ^ 1

\* ------------------------------------------------------------------------
\* Properties
\* ------------------------------------------------------------------------

\* C1 as stated: whenever an attempt under an assumption A reports a call
\* site, the CFG has no path from the entry block to a block ending in a
\* normal function exit that avoids every block holding a recursive-call-site
\* under A.
C1_NoReturnPathWhenReported ==
  \A k \in 1..Len(attempts) :
     attempts[k].diags # << >>
       => ~HasReturnPathAvoidingCalls(fn, attempts[k].invariants)

\* C1 amended: whenever an attempt under an assumption A reports a call
\* site, its backward pass left the entry block without reaches-return, and
\* the CFG has no path from the entry block to a block seeded reaches-return
\* under A on which no earlier block holds a recursive-call-site or an
\* invariant condition under A.
C1_Soundness ==
  \A k \in 1..Len(attempts) :
     attempts[k].diags # << >>
       => /\ attempts[k].backwardDone
          /\ ~attempts[k].entryReachesReturn
          /\ ~HasPlainPathToSeeded(fn, attempts[k].invariants)

\* C1 witness: an attempt under an assumption with an invariant argument has
\* reported a call site of a function that has a returning block reachable
\* from the entry block without passing a recursive-call-site.
C1_Witness ==
  /\ pc = "done"
  /\ diags # << >>
  /\ attempts[Len(attempts)].invariants = InvArg0
  /\ HasReturnPathAvoidingCalls(fn, InvArg0)
  /\ SeededBlocks(fn, InvArg0) # {}

\* C2 (scenario B, f(x): if x > 0 { f(x) }): the attempts under none() and
\* under none() with memory invariance reach the entry block and emit
\* nothing, the attempt under "argument 0 invariant" leaves the entry block
\* without reaches-return and emits one diagnostic at the recursive call, and
\* the run emits exactly that one diagnostic.
C2_ScenarioB ==
  fn = ScenarioB =>
    /\ Len(attempts) < 3 => diags = << >>
    /\ Len(diags) <= 1
    /\ pc = "done" =>
         /\ Outcomes = << <<noInvariants, TRUE, << >> >>,
                          <<InvMem, TRUE, << >> >>,
                          <<InvArg0, FALSE, << <<2, 1>> >> >> >>
         /\ diags = << <<2, 1>> >>

\* C2 witness: the run on scenario B has ended after its third attempt.
C2_Witness ==
  fn = ScenarioB /\ pc = "done" /\ Len(attempts) = 3 /\ diags # << >>

\* C3 (scenario C, g(x): if x > 0 { g(x-1) } else { g(x-2) }): the first
\* attempt, under none(), gives both branch blocks a recursive-call-site,
\* leaves the entry block without reaches-return and emits two diagnostics,
\* one per recursive call; no further attempt runs.
C3_ScenarioC ==
  fn = ScenarioC =>
    /\ Len(attempts) <= 1
    /\ pc \in {"backward", "forward"} =>
         /\ blockInfos[2].recursiveCall = 3
         /\ blockInfos[3].recursiveCall = 3
         /\ ~blockInfos[EntryBlock].reachesReturn
    /\ pc = "done" =>
         /\ Len(attempts) = 1
         /\ attempts[1].invariants = noInvariants
         /\ ~attempts[1].entryReachesReturn
         /\ Len(diags) = 2
         /\ {diags[k] : k \in 1..Len(diags)} = {<<2, 3>>, <<3, 3>>}

\* C3 witness: the run on scenario C has ended with diagnostics.
C3_Witness ==
  fn = ScenarioC /\ pc = "done" /\ Len(diags) = 2

\* The first self-recursive call of the entry block, 0 if there is none.
EntrySelfCall(f) ==
  LET calls == {i \in 1..Len(f.blocks[EntryBlock].insts) :
                  CallsItself(f.blocks[EntryBlock].insts[i])}
  IN IF calls = {} THEN 0 ELSE CHOOSE i \in calls : \A j \in calls : i <= j

\* The entry block has a self-recursive call with no call of a program
\* termination point before it.
EntryCallNotPreceded(f) ==
  /\ EntrySelfCall(f) # 0
  /\ \A j \in 1..(EntrySelfCall(f) - 1) :
        ~f.blocks[EntryBlock].insts[j].terminationPoint

\* The same, and the function it calls, the function itself, is not a
\* program termination point either.
EntryCallsItself(f) ==
  /\ EntryCallNotPreceded(f)
  /\ ~f.blocks[EntryBlock].insts[EntrySelfCall(f)].terminationPoint

\* C4 as stated: for an analysed function whose entry block contains a
\* self-recursive call not preceded by a program-termination-point call, a
\* finished run has made one attempt, under none(), with one diagnostic at
\* that call.
C4_NotPrecededSuffices ==
  (~fn.deserialized /\ EntryCallNotPreceded(fn) /\ pc = "done") =>
    /\ Len(attempts) = 1
    /\ attempts[1].invariants = noInvariants
    /\ diags = << <<EntryBlock, EntrySelfCall(fn)>> >>

\* C4 (scenario A): for an analysed function whose entry block contains a
\* self-recursive call that is not a call of a program termination point and
\* is not preceded by one, the first attempt (none(), memory not invariant)
\* emits exactly one diagnostic, at that call, and no second attempt is run.
C4_ScenarioA ==
  (~fn.deserialized /\ EntryCallsItself(fn)) =>
    /\ Len(attempts) <= 1
    /\ Len(diags) <= 1
    /\ pc = "done" =>
         /\ Len(attempts) = 1
         /\ attempts[1].invariants = noInvariants
         /\ diags = << <<EntryBlock, EntrySelfCall(fn)>> >>
         /\ attempts[1].diags = diags

\* C4 witness: such a run has ended on a function of several blocks with
\* further self-recursive calls and a returning block.
C4_Witness ==
  /\ ~fn.deserialized /\ EntryCallsItself(fn)
  /\ pc = "done" /\ diags # << >>
  /\ NumBlocks(fn) > 1
  /\ Cardinality(SelfCalls(fn)) > 1
  /\ ReturnBlocks(fn) # {}

\* C5 (scenario D, f(): if guard { f() } with a guard read from memory): the
\* attempt under none() without memory invariance emits nothing, the next
\* attempt, under none() with memory invariance, emits the diagnostic at the
\* recursive call; every reporting attempt assumes memory invariance.
C5_ScenarioD ==
  fn = ScenarioD =>
    /\ \A k \in 1..Len(attempts) :
          attempts[k].diags # << >> => isBitSet(attempts[k].invariants, 0)
    /\ pc = "done" =>
         /\ Outcomes = << <<noInvariants, TRUE, << >> >>,
                          <<InvMem, FALSE, << <<2, 1>> >> >> >>
         /\ diags = << <<2, 1>> >>

\* C5 witness: the run on scenario D has ended after its second attempt.
C5_Witness ==
  fn = ScenarioD /\ pc = "done" /\ Len(attempts) = 2 /\ diags # << >>

\* C6 (stop at first detection): an attempt that reported a call site is the
\* last attempt of the run, all diagnostics of the run come from that one
\* attempt, and no call site is reported twice.
C6_StopAtFirstDetection ==
  /\ \A k \in 1..Len(attempts) :
        attempts[k].diags # << >> => k = Len(attempts)
  /\ diags = IF attempts = << >> THEN << >> ELSE attempts[Len(attempts)].diags
  /\ NoDuplicates(diags)
  /\ (pc = "attempt" => diags = << >>)

\* C6 witness: a run has ended on a report while a later attempt was still
\* to be tried.
C6_Witness ==
  /\ pc = "done"
  /\ diags # << >>
  /\ (~withMem \/ candIdx < Len(invariantsToTry))

\* C7 (bounded search): never more than 8 attempts per run.
C7_BoundedSearch == Len(attempts) <= 8

\* C7 witness: a run of 8 attempts on a function whose self-recursive calls
\* forward more than 4 different argument combinations.
C7_Witness ==
  /\ pc = "done"
  /\ Len(attempts) = 8
  /\ Cardinality({fromForwardingArguments(fn, fn.blocks[c[1]].insts[c[2]]) :
                    c \in SelfCalls(fn)}) > 4

\* C8 (fast path): for a function without any self-recursive call the run
\* emits no diagnostic and runs no attempt: no block summary is built and no
\* propagation is started.
C8_FastPath ==
  SelfCalls(fn) = {} =>
    /\ diags = << >>
    /\ attempts = << >>
    /\ blockInfos = << >>
    /\ workList = << >>
    /\ pc \in {"start", "done"}

\* C8 witness: the run has ended on an analysed function without self-calls
\* that has calls, branches and a returning block.
C8_Witness ==
  /\ SelfCalls(fn) = {}
  /\ ~fn.deserialized
  /\ pc = "done"
  /\ \E b \in Blocks(fn) : Len(fn.blocks[b].insts) > 0 /\ fn.blocks[b].insts[1].kind = "apply"
  /\ \E b \in Blocks(fn) : Len(fn.blocks[b].succs) = 2
  /\ ReturnBlocks(fn) # {}

\* No block was pushed twice onto the worklist of either pass of the attempt.
PushedAtMostOnce ==
  \A b \in DOMAIN pushes : pushes[b].bw <= 1 /\ pushes[b].fw <= 1

\* C9 (termination): in every attempt each pass pushes a block at most once,
\* a running pass eventually empties its worklist, and the run eventually
\* finishes.
C9_Termination ==
  /\ []PushedAtMostOnce
  /\ [](pc \in {"backward", "forward"} => <>(workList = << >>))
  /\ <>(pc = "done")

\* Some block lies on a cycle of the CFG.
HasCycle(f) ==
  \E b \in Blocks(f) :
     b \in reachableThrough(f, {f.blocks[b].succs[k] :
                                  k \in DOMAIN f.blocks[b].succs}, Blocks(f))

\* C9 witness: a run has ended on a CFG with a cycle after several attempts,
\* the last of which pushed a block in its backward pass and a block other
\* than the entry block in its forward pass.
C9_Witness ==
  /\ pc = "done"
  /\ HasCycle(fn)
  /\ Len(attempts) >= 2
  /\ attempts[Len(attempts)].forwardRun
  /\ \E b \in DOMAIN pushes : pushes[b].bw = 1
  /\ \E b \in DOMAIN pushes : b # EntryBlock /\ pushes[b].fw = 1

\* An attempt of the history is over.
AttemptOver(k) == k < Len(attempts) \/ pc \in {"attempt", "done"}

\* C10 (idempotence): in a second run on the same CFG every attempt has the
\* assumption and the outcome of the same attempt of the first run, and the
\* run ends with the same diagnostics.
C10_Idempotence ==
  runNo > 1 =>
    /\ Len(attempts) <= Len(prevAttempts)
    /\ \A k \in 1..Len(attempts) :
          /\ attempts[k].invariants = prevAttempts[k].invariants
          /\ AttemptOver(k) => attempts[k] = prevAttempts[k]
    /\ pc = "done" => attempts = prevAttempts /\ diags = prevDiags

\* C10 witness: a second run of several attempts has ended with diagnostics.
C10_Witness ==
  /\ runNo > 1
  /\ pc = "done"
  /\ Len(attempts) >= 3
  /\ diags # << >>

\* Argument positions probed for a function: its own and two beyond.
Positions(f) == 0..(f.nargs + 1)

\* The assumptions the run has built: the candidates and the assumptions of
\* its attempts.
BuiltAssumptions ==
  {invariantsToTry[k] : k \in 1..Len(invariantsToTry)}
    \cup {attempts[k].invariants : k \in 1..Len(attempts)}

\* C11 as stated: at most 16 argument positions are tracked; for every
\* position i >= 16 and every assumption the run builds, also one built from
\* a self-call that forwards the i-th argument unchanged,
\* isArgumentInvariant(i) is false.
C11_CapAtSixteen ==
  \A A \in BuiltAssumptions :
     /\ \A i \in Positions(fn) : i >= 16 => ~isArgumentInvariant(A, i)
     /\ Cardinality({i \in Positions(fn) : isArgumentInvariant(A, i)}) <= 16

\* C11, the cap the code has: 17 argument positions are tracked (0..16); for
\* every position i >= 17 and every assumption the run builds, also one
\* built from a self-call that forwards the i-th argument unchanged,
\* isArgumentInvariant(i) is false, and a condition computed from such an
\* argument is never an invariant condition.
C11_ArgumentCap ==
  /\ \A A \in BuiltAssumptions :
        /\ \A i \in Positions(fn) : i >= 17 => ~isArgumentInvariant(A, i)
        /\ Cardinality({i \in Positions(fn) : isArgumentInvariant(A, i)}) <= 17
  /\ \A b \in DOMAIN blockInfos :
        (/\ fn.blocks[b].cond # 0
         /\ fn.vals[fn.blocks[b].cond].kind = "inst"
         /\ \E v \in DOMAIN fn.vals :
               /\ fn.vals[fn.blocks[b].cond].ops = <<v>>
               /\ fn.vals[v].kind = "arg" /\ fn.vals[v].idx >= 17)
          => ~blockInfos[b].hasInvariantCondition

\* The run on a function whose self-call forwards positions 0..17 has ended
\* without a report; the assumption built from the call holds position 16
\* but not position 17, on which the condition depends.
C11_SeventeenthUntracked ==
  /\ fn = WideForward(17)
  /\ pc = "done"
  /\ Len(attempts) = 4
  /\ diags = << >>
  /\ isArgumentInvariant(attempts[3].invariants, 16)
  /\ ~isArgumentInvariant(attempts[3].invariants, 17)
  /\ ~blockInfos[EntryBlock].hasInvariantCondition

\* C11 witness: the run on a function whose self-call forwards positions
\* 0..17 and whose condition depends on the argument of position 16 has
\* ended with a report, made under the assumption built from the call, which
\* holds position 16 as invariant and makes the condition invariant.
C11_Witness ==
  /\ fn = WideForward(16)
  /\ pc = "done"
  /\ diags # << >>
  /\ isArgumentInvariant(attempts[Len(attempts)].invariants, 16)
  /\ Cardinality({i \in Positions(fn) :
                    isArgumentInvariant(attempts[Len(attempts)].invariants,
                                        i)}) = 17
  /\ blockInfos[EntryBlock].hasInvariantCondition

\* No node got past the visited check twice in the walk.
ExpandedAtMostOnce ==
  \A v \in DOMAIN walk.expanded : walk.expanded[v] <= 1

\* The calls in progress are calls on different nodes.
WalkStackDistinct ==
  \A i, j \in 1..Len(walk.stack) :
     walk.stack[i].node = walk.stack[j].node => i = j

\* A finished walk has the result and the visited set of isInvariantValue.
WalkResultAgrees ==
  walk.pcw = "done" =>
    LET r == isInvariantValue(fn, walk.bitMask, fn.blocks[EntryBlock].cond, {})
    IN walk.ret = r.res /\ walk.visited = r.visited

\* C12 (walker termination): on every value graph, cyclic or with shared
\* operands, a walk expands each node at most once, never has two calls on
\* the same node in progress, and eventually returns, with the result of
\* isInvariantValue.
C12_WalkerTerminates ==
  /\ [](ExpandedAtMostOnce /\ WalkStackDistinct /\ WalkResultAgrees)
  /\ <>(walk.pcw = "done")

\* C12 witness: a walk has returned true after it came back to a node on
\* its own defining chain and met a node over two operand paths; every node
\* of the graph was expanded.
C12_Witness ==
  /\ walk.pcw = "done"
  /\ walk.ret
  /\ \A v \in DOMAIN fn.vals \ {V.x} : walk.expanded[v] = 1
  /\ \E v \in walk.visited : v \in {fn.vals[v].ops[k] : k \in DOMAIN fn.vals[v].ops}
  /\ \E v \in walk.visited :
        Len(fn.vals[v].ops) = 2 /\ fn.vals[v].ops[1] = fn.vals[v].ops[2]

\* The assumption of the latest attempt.
LastInvariants == attempts[Len(attempts)].invariants

\* The backward pass of the latest attempt has terminated; blockInfos holds
\* its reaches-return flags.
BackwardTerminated ==
  /\ attempts # << >>
  /\ \/ pc = "backward" /\ workList = << >>
     \/ attempts[Len(attempts)].backwardDone

\* There is a path b = b0 -> ... -> bk, k >= 0, to a block bk seeded
\* reaches-return on which no block holds a recursive-call-site.
HasCallFreePathToSeeded(f, bitMask, b) ==
  LET free == Blocks(f) \ CallSiteBlocks(f, bitMask)
  IN b \in free
     /\ reachableThrough(f, {b}, free) \cap free \cap SeededBlocks(f, bitMask)
          # {}

\* C13 (reaches-return without invariant conditions): when the backward
\* pass of an attempt in which no block has the invariant-condition flag has
\* terminated, a block has reaches-return iff a path leads from it to a block
\* seeded reaches-return with no recursive-call-site on the path; the result
\* of the pass is this predicate at the entry block.
C13_ReachesReturnMeaning ==
  (/\ BackwardTerminated
   /\ \A b \in DOMAIN blockInfos : ~blockInfos[b].hasInvariantCondition)
    => /\ \A b \in Blocks(fn) :
             blockInfos[b].reachesReturn
               <=> HasCallFreePathToSeeded(fn, LastInvariants, b)
       /\ attempts[Len(attempts)].backwardDone
            => (attempts[Len(attempts)].entryReachesReturn
                  <=> HasCallFreePathToSeeded(fn, LastInvariants, EntryBlock))

\* C13 witness: such a backward pass has terminated on a CFG with a
\* recursive-call-site; a block that was not seeded has reaches-return and a
\* block without a recursive-call-site has not.
C13_Witness ==
  /\ pc = "backward" /\ workList = << >>
  /\ \A b \in DOMAIN blockInfos : ~blockInfos[b].hasInvariantCondition
  /\ CallSiteBlocks(fn, LastInvariants) # {}
  /\ \E b \in Blocks(fn) \ SeededBlocks(fn, LastInvariants) :
        blockInfos[b].reachesReturn
  /\ \E b \in Blocks(fn) \ CallSiteBlocks(fn, LastInvariants) :
        ~blockInfos[b].reachesReturn

\* reaches-return of the targets of the successor edges of block p.
SuccReaches(p) ==
  [k \in DOMAIN fn.blocks[p].succs |->
     blockInfos[fn.blocks[p].succs[k]].reachesReturn]

\* C14 (OR/AND rule): when the backward pass has terminated, a block without
\* recursive-call-site that was not seeded reaches-return has reaches-return
\* iff, its invariant-condition flag being clear, some successor has it, or,
\* the flag being set, the target of every successor edge has it.
C14_OrAndRule ==
  BackwardTerminated =>
    \A p \in Blocks(fn) \ SeededBlocks(fn, LastInvariants) :
       blockInfos[p].recursiveCall = 0 =>
         (blockInfos[p].reachesReturn
            <=> IF blockInfos[p].hasInvariantCondition
                THEN \A k \in DOMAIN SuccReaches(p) : SuccReaches(p)[k]
                ELSE \E k \in DOMAIN SuccReaches(p) : SuccReaches(p)[k])

\* C14 witness: a backward pass has terminated in which a block with an
\* invariant condition whose two successor edges lead to the same block was
\* given reaches-return.
C14_Witness ==
  /\ pc = "backward" /\ workList = << >>
  /\ \E p \in Blocks(fn) \ SeededBlocks(fn, LastInvariants) :
        /\ blockInfos[p].hasInvariantCondition
        /\ blockInfos[p].reachesReturn
        /\ blockInfos[p].numSuccsNotReachingReturn = 0
        /\ Len(fn.blocks[p].succs) = 2
        /\ fn.blocks[p].succs[1] = fn.blocks[p].succs[2]

\* C15 (recursive-call blocks are frozen): in every state of an attempt a
\* block whose recursive-call-site is set has reaches-return false and a
\* remaining-successor counter equal to its number of successor edges, and
\* its recursive-call-site is the one its summary was built with.
C15_CallBlocksFrozen ==
  \A b \in DOMAIN blockInfos :
     /\ blockInfos[b].recursiveCall # 0 =>
          /\ ~blockInfos[b].reachesReturn
          /\ blockInfos[b].numSuccsNotReachingReturn = Len(fn.blocks[b].succs)
     /\ attempts # << >> =>
          blockInfos[b].recursiveCall
            = BlockInfo(fn, b, LastInvariants).recursiveCall

\* C15 witness: a backward pass has terminated in which a block holding a
\* recursive-call-site has a successor with reaches-return, and another
\* predecessor of that successor was given reaches-return.
C15_Witness ==
  /\ pc = "backward" /\ workList = << >>
  /\ \E b \in DOMAIN blockInfos :
        /\ blockInfos[b].recursiveCall # 0
        /\ \E k \in DOMAIN fn.blocks[b].succs :
              LET s == fn.blocks[b].succs[k]
              IN /\ blockInfos[s].reachesReturn
                 /\ \E p \in DOMAIN blockInfos :
                       /\ p # b
                       /\ p \notin SeededBlocks(fn, LastInvariants)
                       /\ blockInfos[p].reachesReturn
                       /\ \E j \in DOMAIN fn.blocks[p].succs :
                             fn.blocks[p].succs[j] = s

\* C16 (counter assertion): in every state the remaining-successor counter
\* of a block lies between 0 and its number of successor edges, so no
\* decrement started from 0, and the predecessors the next step of the
\* backward pass is about to decrement have a counter above 0.
C16_CounterInRange ==
  /\ \A b \in DOMAIN blockInfos :
        /\ blockInfos[b].numSuccsNotReachingReturn >= 0
        /\ blockInfos[b].numSuccsNotReachingReturn <= Len(fn.blocks[b].succs)
  /\ (pc = "backward" /\ workList # << >>) =>
        \A p \in Blocks(fn) :
           (/\ \E k \in DOMAIN fn.blocks[p].succs :
                  fn.blocks[p].succs[k] = backVal(workList)
            /\ ~blockInfos[p].reachesReturn
            /\ blockInfos[p].recursiveCall = 0)
             => blockInfos[p].numSuccsNotReachingReturn > 0

\* C16 witness: a backward pass has terminated that has counted a block
\* with two successor edges to the same block down to 0 and has decremented
\* the counter of a block that is its own successor.
C16_Witness ==
  /\ pc = "backward" /\ workList = << >>
  /\ \E p \in DOMAIN blockInfos :
        /\ blockInfos[p].numSuccsNotReachingReturn = 0
        /\ Len(fn.blocks[p].succs) = 2
        /\ fn.blocks[p].succs[1] = fn.blocks[p].succs[2]
  /\ \E p \in DOMAIN blockInfos :
        /\ blockInfos[p].numSuccsNotReachingReturn < Len(fn.blocks[p].succs)
        /\ \E k \in DOMAIN fn.blocks[p].succs : fn.blocks[p].succs[k] = p

\* Instruction i of block b is a self-recursive call that qualifies under
\* the assumption.
QualifyingCall(f, bitMask, b, i) ==
  LET inst == f.blocks[b].insts[i]
  IN CallsItself(inst) /\ hasInvariantArguments(f, bitMask, inst)

\* Instruction i of block b calls a program termination point.
TerminationCall(f, b, i) ==
  f.blocks[b].insts[i].kind = "apply" /\ f.blocks[b].insts[i].terminationPoint

\* Instruction i of block b is a memory-writing instruction other than a
\* call of the two kinds above.
MemoryWrite(f, bitMask, b, i) ==
  /\ mayWriteToMemory(f.blocks[b].insts[i])
  /\ ~TerminationCall(f, b, i)
  /\ ~QualifyingCall(f, bitMask, b, i)

\* The terminator of block b exits the function or terminates the program.
EndsInExit(f, b) == f.blocks[b].term \in {"return", "throw", "unwind", "unreachable"}

Insts(f, b) == DOMAIN f.blocks[b].insts

\* C17 as stated: a summary is built with reaches-return only for a block
\* that contains no qualifying self-recursive call and that ends in an
\* exiting or program-terminating terminator or, under memory invariance,
\* contains a memory-writing instruction.
C17_NoCallInSeededBlock ==
  attempts # << >> => \A b \in Blocks(fn) :
     LET A == LastInvariants
     IN BlockInfo(fn, b, A).reachesReturn =>
          /\ \A i \in Insts(fn, b) : ~QualifyingCall(fn, A, b, i)
          /\ \/ EndsInExit(fn, b)
             \/ /\ isBitSet(A, 0)
                /\ \E i \in Insts(fn, b) : mayWriteToMemory(fn.blocks[b].insts[i])

\* C17 amended: a summary is built with reaches-return only for a block
\* that either has no program-termination-point call and no qualifying
\* self-recursive call and ends in an exiting or program-terminating
\* terminator, or, under memory invariance, has a memory-writing instruction
\* with no such call before it; a block whose summary holds a
\* recursive-call-site is not seeded.
C17_SeedingRule ==
  attempts # << >> => \A b \in Blocks(fn) :
     LET A == LastInvariants
     IN /\ BlockInfo(fn, b, A).reachesReturn =>
             \/ /\ EndsInExit(fn, b)
                /\ \A i \in Insts(fn, b) :
                      ~QualifyingCall(fn, A, b, i) /\ ~TerminationCall(fn, b, i)
             \/ /\ isBitSet(A, 0)
                /\ \E i \in Insts(fn, b) :
                      /\ MemoryWrite(fn, A, b, i)
                      /\ \A j \in 1..(i - 1) :
                            /\ ~QualifyingCall(fn, A, b, j)
                            /\ ~TerminationCall(fn, b, j)
        /\ BlockInfo(fn, b, A).recursiveCall # 0
             => ~BlockInfo(fn, b, A).reachesReturn

\* C17 witness: in an attempt under memory invariance a block that has a
\* store before a qualifying self-recursive call was built with
\* reaches-return, and the backward pass has started from it.
C17_Witness ==
  /\ pc = "backward"
  /\ isBitSet(LastInvariants, 0)
  /\ \E b \in Blocks(fn) :
        /\ blockInfos[b].reachesReturn
        /\ blockInfos[b].recursiveCall = 0
        /\ ~EndsInExit(fn, b)
        /\ Len(fn.blocks[b].insts) = 2
        /\ fn.blocks[b].insts[1].kind = "store"
        /\ QualifyingCall(fn, LastInvariants, b, 2)

\* Instruction i of block b is notable under the assumption: a
\* program-termination-point call, a qualifying self-recursive call or,
\* under memory invariance, a memory-writing instruction.
Notable(f, bitMask, b, i) ==
  \/ TerminationCall(f, b, i)
  \/ QualifyingCall(f, bitMask, b, i)
  \/ isBitSet(bitMask, 0) /\ mayWriteToMemory(f.blocks[b].insts[i])

\* The first notable instruction of block b, 0 if it has none.
FirstNotable(f, bitMask, b) ==
  LET ns == {i \in Insts(f, b) : Notable(f, bitMask, b, i)}
  IN IF ns = {} THEN 0 ELSE CHOOSE i \in ns : \A j \in ns : i <= j

\* C18 (scan order): the summary of a block is decided by its first notable
\* instruction: a program-termination-point call gives neither
\* recursive-call-site nor reaches-return, a qualifying self-recursive call
\* gives the recursive-call-site at that call and no reaches-return, a memory
\* write (under memory invariance) gives reaches-return and no
\* recursive-call-site; without notable instruction there is no
\* recursive-call-site and reaches-return tells whether the terminator exits.
C18_ScanOrder ==
  attempts # << >> => \A b \in Blocks(fn) :
     LET A    == LastInvariants
         info == BlockInfo(fn, b, A)
         n    == FirstNotable(fn, A, b)
     IN <<info.recursiveCall, info.reachesReturn>> =
          IF n = 0 THEN <<0, EndsInExit(fn, b)>>
          ELSE IF TerminationCall(fn, b, n) THEN <<0, FALSE>>
          ELSE IF QualifyingCall(fn, A, b, n) THEN <<n, FALSE>>
          ELSE <<0, TRUE>>

\* C18 witness: an attempt under memory invariance has built the summaries
\* of a function that has a returning block starting with a
\* program-termination-point call, a block with a store before a qualifying
\* self-recursive call and a block with a store after one.
C18_Witness ==
  /\ pc = "backward"
  /\ isBitSet(LastInvariants, 0)
  /\ \E b \in Blocks(fn) :
        /\ Len(fn.blocks[b].insts) = 1
        /\ TerminationCall(fn, b, 1) /\ fn.blocks[b].term = "return"
        /\ ~blockInfos[b].reachesReturn
  /\ \E b \in Blocks(fn) :
        /\ Len(fn.blocks[b].insts) = 2
        /\ fn.blocks[b].insts[1].kind = "store"
        /\ QualifyingCall(fn, LastInvariants, b, 2)
        /\ blockInfos[b].recursiveCall = 0
  /\ \E b \in Blocks(fn) :
        /\ Len(fn.blocks[b].insts) = 2
        /\ QualifyingCall(fn, LastInvariants, b, 1)
        /\ fn.blocks[b].insts[2].kind = "store"
        /\ blockInfos[b].recursiveCall = 1

\* The forward pass of the latest attempt has run and terminated.
ForwardTerminated ==
  /\ attempts # << >>
  /\ attempts[Len(attempts)].forwardRun
  /\ \/ pc = "forward" /\ workList = << >>
     \/ pc \in {"attempt", "done"}

\* Blocks at the end of a path from a block of `reached` on which no block
\* has reaches-return and no block before the last has a
\* recursive-call-site, by the block infos of the state.
RECURSIVE reachableAvoidingReturn(_)
reachableAvoidingReturn(reached) ==
  LET more == reached \cup
                {s \in Blocks(fn) :
                   /\ ~blockInfos[s].reachesReturn
                   /\ \E p \in reached :
                         /\ blockInfos[p].recursiveCall = 0
                         /\ \E k \in DOMAIN fn.blocks[p].succs :
                               fn.blocks[p].succs[k] = s}
  IN IF more = reached THEN reached ELSE reachableAvoidingReturn(more)

\* The call sites the forward pass has to report.
CallSitesToReport ==
  {<<b, blockInfos[b].recursiveCall>> :
     b \in {c \in reachableAvoidingReturn({EntryBlock}) :
              blockInfos[c].recursiveCall # 0}}

\* C19 (forward locator): an attempt has diagnostics only if its backward
\* pass left the entry block without reaches-return; when its forward pass
\* has terminated, the reported call sites are exactly the
\* recursive-call-sites of the blocks reachable from the entry block over
\* blocks without reaches-return and without passing a recursive-call-site,
\* each reported once, and the pass has returned true iff it reported one.
C19_ForwardLocator ==
  /\ \A k \in 1..Len(attempts) :
        attempts[k].diags # << >> =>
          /\ attempts[k].backwardDone
          /\ ~attempts[k].entryReachesReturn
          /\ attempts[k].forwardRun
  /\ \A k \in 1..Len(attempts) : NoDuplicates(attempts[k].diags)
  /\ pc = "forward" => ~blockInfos[EntryBlock].reachesReturn
  /\ ForwardTerminated =>
        LET reported == attempts[Len(attempts)].diags
        IN /\ {reported[i] : i \in 1..Len(reported)} = CallSitesToReport
           /\ foundInfiniteRecursion <=> reported # << >>

\* C19 witness: a forward pass has terminated after it reported the call
\* site of one block and left out the call site of another, which lies
\* behind a block with reaches-return; it went through a block other than
\* the entry block to get to the one it reported.
C19_Witness ==
  /\ pc = "forward" /\ workList = << >>
  /\ foundInfiniteRecursion
  /\ \E b \in Blocks(fn) :
        /\ blockInfos[b].recursiveCall # 0
        /\ ~blockInfos[b].reachableFromEntry
        /\ \E p \in Blocks(fn) :
              /\ blockInfos[p].reachesReturn
              /\ fn.blocks[p].succs = <<b>>
  /\ \E b \in Blocks(fn) \ {EntryBlock} :
        /\ blockInfos[b].recursiveCall = 0
        /\ blockInfos[b].reachableFromEntry

\* The assumption the k-th attempt of a run has by the loop of run(): the
\* candidates in insertion order, each first as it is and then with memory
\* invariance.
ScheduledInvariants(k) ==
  IF k % 2 = 1
  THEN invariantsToTry[(k + 1) \div 2]
  ELSE invariantsToTry[k \div 2] + InvMem

\* C20 (candidate set and attempt order): the candidate list, once
\* collected, starts with none(), holds no assumption twice, has at most 4
\* entries, each after the first built from a self-recursive call, none with
\* memory invariance; the k-th attempt of the run is under the assumption
\* scheduled for k, so the candidates are tried in insertion order, each
\* without memory invariance immediately before with it.
C20_CandidatesAndOrder ==
  /\ invariantsToTry # << >> =>
        /\ invariantsToTry[1] = noInvariants
        /\ NoDuplicates(invariantsToTry)
        /\ Len(invariantsToTry) <= 4
        /\ \A k \in 1..Len(invariantsToTry) : ~isBitSet(invariantsToTry[k], 0)
        /\ \A k \in 2..Len(invariantsToTry) :
              \E c \in SelfCalls(fn) :
                 invariantsToTry[k]
                   = fromForwardingArguments(fn, fn.blocks[c[1]].insts[c[2]])
  /\ Len(attempts) <= 2 * Len(invariantsToTry)
  /\ \A k \in 1..Len(attempts) :
        attempts[k].invariants = ScheduledInvariants(k)
  /\ pc \in {"backward", "forward"} =>
        /\ candIdx = (Len(attempts) + 1) \div 2
        /\ withMem <=> Len(attempts) % 2 = 0

\* C20 witness: a run has ended after the second attempt on its fourth
\* candidate, on a function whose self-recursive calls forward more
\* different argument combinations than the list takes.
C20_Witness ==
  /\ pc = "done"
  /\ Len(invariantsToTry) = 4
  /\ Len(attempts) = 8
  /\ attempts[7].invariants = invariantsToTry[4]
  /\ attempts[8].invariants = invariantsToTry[4] + 1
  /\ \E c \in SelfCalls(fn) :
        \A k \in 1..4 :
           invariantsToTry[k]
             # fromForwardingArguments(fn, fn.blocks[c[1]].insts[c[2]])

\* Instruction i of block b is a self-recursive call.
SelfCallAt(f, b, i) == CallsItself(f.blocks[b].insts[i])

\* Positions of the arguments of a call.
ArgPositions(inst) == 0..(Len(inst.args) - 1)

\* The call passes, at a position the assumption marks invariant, a value
\* that is not the function's own argument of that position.
PassesOtherValue(f, bitMask, inst) ==
  \E p \in ArgPositions(inst) :
     isArgumentInvariant(bitMask, p) /\ inst.args[p + 1] # incomingArg(f, p)

\* The same, with access-scope wrappers around the passed value looked through.
PassesOtherValueStripped(f, bitMask, inst) ==
  \E p \in ArgPositions(inst) :
     /\ isArgumentInvariant(bitMask, p)
     /\ stripAccessMarkers(f, inst.args[p + 1]) # incomingArg(f, p)

\* The call sites reported by the latest attempt.
LastReported ==
  {attempts[Len(attempts)].diags[k] :
     k \in 1..Len(attempts[Len(attempts)].diags)}

\* C21 as stated: in an attempt under A a self-recursive call that passes,
\* at a position A marks invariant, a value other than the function's own
\* argument of that position is not the recursive-call-site of its block and
\* is not reported.
C21_OtherValueIgnored ==
  attempts # << >> =>
    \A b \in Blocks(fn) : \A i \in Insts(fn, b) :
       (SelfCallAt(fn, b, i)
        /\ PassesOtherValue(fn, LastInvariants, fn.blocks[b].insts[i]))
         => /\ blockInfos[b].recursiveCall # i
            /\ <<b, i>> \notin LastReported

\* C21 amended: in an attempt under A a self-recursive call that passes, at
\* a position A marks invariant, a value that is not, once access-scope
\* wrappers are looked through, the function's own argument of that position
\* is not the recursive-call-site of its block and is not reported; a block
\* all of whose self-recursive calls are such has no recursive-call-site and,
\* when the backward pass has terminated, has reaches-return if it has no
\* invariant condition and a successor has reaches-return. Under an
\* assumption without invariant arguments the first self-recursive call of a
\* block is its recursive-call-site unless it is a program-termination-point
\* call itself or such a call or, under memory invariance, a memory write
\* precedes it.
C21_NonForwardingIgnored ==
  attempts # << >> =>
    \A b \in Blocks(fn) :
       LET A     == LastInvariants
           calls == {i \in Insts(fn, b) : SelfCallAt(fn, b, i)}
           other == {i \in calls :
                       PassesOtherValueStripped(fn, A, fn.blocks[b].insts[i])}
       IN /\ \A i \in other :
                /\ blockInfos[b].recursiveCall # i
                /\ <<b, i>> \notin LastReported
          /\ (calls # {} /\ other = calls) =>
                /\ blockInfos[b].recursiveCall = 0
                /\ (/\ BackwardTerminated
                    /\ ~blockInfos[b].hasInvariantCondition
                    /\ \E k \in DOMAIN SuccReaches(b) : SuccReaches(b)[k])
                     => blockInfos[b].reachesReturn
          /\ (A \in {noInvariants, InvMem} /\ calls # {}) =>
                LET first == CHOOSE i \in calls : \A j \in calls : i <= j
                IN (/\ \A j \in 1..first : ~TerminationCall(fn, b, j)
                    /\ \A j \in 1..(first - 1) :
                          ~(A = InvMem
                              /\ mayWriteToMemory(fn.blocks[b].insts[j])))
                     => blockInfos[b].recursiveCall = first

\* C21 witness: under "argument 0 invariant" a forward pass has reported
\* the forwarding self-recursive call of one block, while the block of a
\* self-recursive call that passes another value has no recursive-call-site,
\* was given reaches-return by the backward pass and is not reported.
C21_Witness ==
  /\ pc = "forward" /\ workList = << >>
  /\ LastInvariants = InvArg0
  /\ LastReported # {}
  /\ \E b \in Blocks(fn) \ SeededBlocks(fn, InvArg0) :
        /\ Len(fn.blocks[b].insts) = 1
        /\ SelfCallAt(fn, b, 1)
        /\ PassesOtherValueStripped(fn, InvArg0, fn.blocks[b].insts[1])
        /\ blockInfos[b].recursiveCall = 0
        /\ blockInfos[b].reachesReturn

\* The nodes reachable from the nodes of `reached` through operand edges.
RECURSIVE reachableNodes(_, _)
reachableNodes(f, reached) ==
  LET more == reached \cup
                {f.vals[v].ops[k] : <<v, k>> \in
                   {vk \in reached \X (1..2) : vk[2] <= Len(f.vals[vk[1]].ops)}}
  IN IF more = reached THEN reached ELSE reachableNodes(f, more)

\* Node v is a function argument whose position the assumption marks
\* invariant, or an instruction that does not read memory unless the
\* assumption holds memory invariant.
InvariantNode(f, bitMask, v) ==
  \/ /\ f.vals[v].kind = "arg"
     /\ f.vals[v].idx <= 16
     /\ isBitSet(bitMask, f.vals[v].idx + 1)
  \/ /\ f.vals[v].kind = "inst"
     /\ isBitSet(bitMask, 0) \/ ~f.vals[v].reads

\* C22 (walker result): a finished walk from value v has returned true iff
\* every node reachable from v through operand edges is an argument the
\* assumption marks invariant or an instruction that does not read memory
\* (or any instruction, under memory invariance), in whichever order the
\* operands of a node are listed; a reachable node of another kind makes it
\* false. The recursive operator gives the same.
C22_WalkerResult ==
  LET v   == fn.blocks[EntryBlock].cond
      all == \A n \in reachableNodes(fn, {v}) :
                InvariantNode(fn, walk.bitMask, n)
  IN walk.pcw = "done" =>
       /\ walk.ret <=> all
       /\ isInvariantValue(fn, walk.bitMask, v, {}).res <=> all

\* C22 witness: under "argument 0 and memory invariant" a walk has returned
\* true on a graph with a cycle in which it went through a memory-reading
\* instruction and the argument, listed as the second operand of its user.
C22_Witness ==
  /\ walk.pcw = "done"
  /\ walk.ret
  /\ walk.bitMask = InvArg0 + InvMem
  /\ V.x \in walk.visited
  /\ \E n \in walk.visited : fn.vals[n].reads
  /\ \E n \in walk.visited :
        Len(fn.vals[n].ops) = 2 /\ fn.vals[n].ops[2] = V.x
  /\ \E n \in walk.visited :
        n \in reachableNodes(fn, {fn.vals[n].ops[k] : k \in DOMAIN fn.vals[n].ops})

\* C23 (order independence): with blocks taken from the worklists in any
\* order and predecessors and successors visited in any order, the
\* reaches-return flag of every block after the backward pass and the set of
\* call sites the forward pass reports are those of the pass run in the
\* order of the code.
C23_OrderIndependence ==
  /\ BackwardTerminated =>
        LET infos == isEntryReachableFromReturn(fn, LastInvariants)
        IN \A b \in Blocks(fn) :
              blockInfos[b].reachesReturn <=> infos[b].reachesReturn
  /\ ForwardTerminated =>
        LET infos == isEntryReachableFromReturn(fn, LastInvariants)
            inOrder == findRecursiveCallsAndDiagnose(fn, infos)
        IN LastReported = {inOrder[k] : k \in DOMAIN inOrder}

\* C23 witness: a forward pass has terminated after it reported two call
\* sites in another order than the code's, behind a backward pass that gave
\* reaches-return to a block that was not seeded with it.
C23_Witness ==
  /\ pc = "forward" /\ workList = << >>
  /\ Len(diags) = 2
  /\ attempts[Len(attempts)].diags #
       findRecursiveCallsAndDiagnose(fn,
         isEntryReachableFromReturn(fn, LastInvariants))
  /\ \E b \in Blocks(fn) :
        /\ blockInfos[b].reachesReturn
        /\ ~BlockInfo(fn, b, LastInvariants).reachesReturn

====
